---- MODULE Spec2Model ----
(***************************************************************************)
(* State-machine model of src/email_check.py: the syntax filter, the       *)
(* disposable-domain denylist, the two result caches, validate_email_async,*)
(* batch_validate and the per-domain existence checker                     *)
(* (check_email_exists_batch / check_domain_emails).                       *)
(*                                                                         *)
(* Strings are sequences of one-character strings, so that the regular     *)
(* expression, split('@') and lower() are computed and not assumed.        *)
(* The event loop is one thread: a coroutine runs from one await to the    *)
(* next without interruption (one action per such stretch); the blocking   *)
(* probes run on worker threads (their own actions).                       *)
(***************************************************************************)
EXTENDS Integers, Sequences, FiniteSets, TLC

(***************************************************************************)
(* Bounds of the model.                                                    *)
(***************************************************************************)
\* longest list of addresses submitted to batch_validate
MaxEmails == 3
\* most calls the sequential caller (interactive_mode) makes in one run
MaxCalls == 2

(***************************************************************************)
(* Program settings.  Each has a default in the source and is overwritten  *)
(* by main_async from --max-domains / --batch-size / --max-workers         *)
(* (email_check.py lines 530-537); the model runs the configuration        *)
(* --max-domains 2 --batch-size 2 --max-workers 1, so that three domains   *)
(* contend for the gate, three addresses of one domain make two            *)
(* sub-batches and two probes contend for a worker.                        *)
(***************************************************************************)
DEFAULT_MAX_CONCURRENT_DOMAINS == 2
DEFAULT_BATCH_SIZE == 2
DEFAULT_MAX_WORKERS == 1

\* batch_validate prints its progress at every PROGRESS_EVERY-th task (line 359)
PROGRESS_EVERY == 10

(***************************************************************************)
(* Characters and strings.                                                 *)
(***************************************************************************)
LowerSeq == <<"a","b","c","d","e","f","g","h","i","j","k","l","m",
              "n","o","p","q","r","s","t","u","v","w","x","y","z">>
UpperSeq == <<"A","B","C","D","E","F","G","H","I","J","K","L","M",
              "N","O","P","Q","R","S","T","U","V","W","X","Y","Z">>
Digits == {"0","1","2","3","4","5","6","7","8","9"}
Letters == {LowerSeq[i] : i \in 1..26} \cup {UpperSeq[i] : i \in 1..26}

\* [a-zA-Z0-9._%+-]
LocalChars == Letters \cup Digits \cup {".", "_", "%", "+", "-"}
\* [a-zA-Z0-9.-]
DomainChars == Letters \cup Digits \cup {".", "-"}

\* str.lower() on one character, then on a string
LowerChar(c) ==
    IF \E i \in 1..26 : UpperSeq[i] = c
    THEN LowerSeq[CHOOSE i \in 1..26 : UpperSeq[i] = c]
    ELSE c
\* (mutant) the domain is compared as it was typed
lower_identity(s) == s

lower(s) == [i \in 1..Len(s) |-> LowerChar(s[i])]

\* ^[a-zA-Z0-9._%+-]+@[a-zA-Z0-9.-]+\.[a-zA-Z]{2,}$ on the first n characters
RegexMatchLen(s, n) ==
    \E at \in 2..n : \E dot \in (at + 2)..(n - 2) :
        /\ s[at] = "@"
        /\ s[dot] = "."
        /\ \A i \in 1..(at - 1) : s[i] \in LocalChars
        /\ \A i \in (at + 1)..(dot - 1) : s[i] \in DomainChars
        /\ \A i \in (dot + 1)..n : s[i] \in Letters

\* (mutant) the pattern with an optional '@':
\* ^[a-zA-Z0-9._%+-]+@?[a-zA-Z0-9.-]+\.[a-zA-Z]{2,}$
EMAIL_REGEX_match_optional_at(s) ==
    LET n == IF Len(s) > 0 /\ s[Len(s)] = "\n" THEN Len(s) - 1 ELSE Len(s)
    IN  \/ RegexMatchLen(s, n)
        \/ \E dot \in 3..(n - 2) :
              /\ s[dot] = "."
              /\ s[1] \in LocalChars
              /\ \A i \in 2..(dot - 1) : s[i] \in LocalChars \cup DomainChars
              /\ s[dot - 1] \in DomainChars
              /\ \A i \in (dot + 1)..n : s[i] \in Letters

\* EMAIL_REGEX.match(email): '$' also matches before one trailing newline
EMAIL_REGEX_match(s) ==
    \/ RegexMatchLen(s, Len(s))
    \/ /\ Len(s) > 0
       /\ s[Len(s)] = "\n"
       /\ RegexMatchLen(s, Len(s) - 1)

\* (mutant) the syntax filter lets every string through
quick_validate_any(email) == TRUE

quick_validate(email) == EMAIL_REGEX_match(email)

\* email.split('@'): the positions of '@', and element [1] of the split
AtPositions(s) == {i \in 1..Len(s) : s[i] = "@"}
SplitHasIndex1(s) == AtPositions(s) # {}
SplitIndex1(s) ==
    LET first == CHOOSE i \in AtPositions(s) : \A j \in AtPositions(s) : i <= j
        later == {i \in AtPositions(s) : i > first}
        stop  == IF later = {} THEN Len(s) + 1
                 ELSE CHOOSE i \in later : \A j \in later : i <= j
    IN  SubSeq(s, first + 1, stop - 1)

disposable_domains == {
    <<"t","e","m","p","m","a","i","l",".","c","o","m">>,
    <<"t","h","r","o","w","a","w","a","y","m","a","i","l",".","c","o","m">>,
    <<"m","a","i","l","i","n","a","t","o","r",".","c","o","m">>,
    <<"g","u","e","r","r","i","l","l","a","m","a","i","l",".","c","o","m">>,
    <<"y","o","p","m","a","i","l",".","c","o","m">>,
    <<"t","e","m","p","-","m","a","i","l",".","o","r","g">>,
    <<"f","a","k","e","i","n","b","o","x",".","c","o","m">>,
    <<"1","0","m","i","n","u","t","e","m","a","i","l",".","c","o","m">>,
    <<"t","r","a","s","h","m","a","i","l",".","c","o","m">>}

(***************************************************************************)
(* The addresses the callers submit.                                       *)
(***************************************************************************)
A_X == <<"a","@","x",".","i","o">>
B_X == <<"b","@","x",".","i","o">>
C_X == <<"c","@","x",".","i","o">>
A_Y == <<"a","@","y",".","i","o">>
A_Z == <<"a","@","z",".","i","o">>
NO_AT == <<"a",".","i","o">>
A_YOP == <<"a","@","Y","o","p","M","a","i","l",".","c","o","m">>
Addresses == {A_X, B_X, C_X, A_Y, A_Z, NO_AT, A_YOP}

D_Y == <<"y",".","i","o">>

\* every list of 1..MaxEmails addresses
EmailLists == UNION {[1..n -> Addresses] : n \in 1..MaxEmails}

\* the cache file's content when the process starts (load_cache)
EmptyMap == [k \in {} |-> TRUE]
\* (domains, emails): no cache file, or a file left by an earlier run
LoadedCaches == {
    <<EmptyMap, EmptyMap>>,
    <<D_Y :> FALSE, A_X :> TRUE>>,
    <<D_Y :> TRUE, A_X :> FALSE>>}

(***************************************************************************)
(* Values returned to callers.  A message is kept as its kind, the domain  *)
(* or address it names and the text of the exception it wraps.             *)
(***************************************************************************)
Msg(kind, arg, err) == [kind |-> kind, arg |-> arg, err |-> err]
NoMsg == Msg("none", <<>>, "")
Ret(valid, result, warning) == [valid |-> valid, result |-> result, warning |-> warning]
NoRet == Ret(FALSE, NoMsg, "none")

FormatError == Ret(FALSE, Msg("format", <<>>, ""), "none")
MissingAtError == Ret(FALSE, Msg("missing_at", <<>>, ""), "none")
DisposableError(domain) == Ret(FALSE, Msg("disposable", domain, ""), "none")
CachedDomainError(domain) == Ret(FALSE, Msg("cached_undeliverable", domain, ""), "none")
\* valid.normalized is the library's normal form of the address
Normalized(email) == Msg("normalized", email, "")
\* str(e) of the library's EmailNotValidError
NotValidError(reason) == Ret(FALSE, Msg("not_valid", <<>>, reason), "none")

\* what validate_email (the library) does on a worker thread
DelivOutcomes(cd) ==
    {"ok", "syntax", "error"} \cup (IF cd THEN {"undeliverable"} ELSE {})
\* what verify_email_exists (the library) does on a worker thread
ExistOutcomes == {"T", "F", "raised"}
\* str(e) of the exception a probe raises
ErrTexts == {"timeout"}

VARIABLES
    emails,                 \* batch_validate's argument
    check_deliverability,   \* batch_validate's argument
    check_existence,        \* batch_validate's argument
    domain_cache,           \* module global: domain -> bool
    email_existence_cache,  \* module global: address -> bool
    bpc,                    \* where batch_validate (or the sequential caller) is
    results,                \* batch_validate's results dict
    valid_emails,           \* batch_validate's valid_emails list
    domain_order,           \* keys of emails_by_domain, in insertion order
    emails_by_domain,       \* batch_validate's emails_by_domain
    processed,              \* batch_validate's processed counter
    progress_reports,       \* history: the task indices at which progress was printed
    await_i,                \* index of the task batch_validate awaits
    tasks,                  \* the validate_email_async / check_email_exists calls
    semaphore,              \* check_email_exists_batch's semaphore: value and waiters
    dtask,                  \* the check_domain_emails task of each domain
    loop_blocked,           \* the event-loop thread is inside a blocking call
    cache_writes,           \* history: the values written to each cache key in this run
    verdicts,               \* history: the answers existence probes returned
    cache_file,             \* CACHE_FILE on disk: absent, unreadable, or its text
    mpc,                    \* where the process is between load_cache and save_cache
    cache_op,               \* history: the last cache operation and the caches before it
    saved,                  \* history: the caches the file was last written from
    runs,                   \* the number of processes started after the first
    logging_state,          \* logging: level and handlers of the two named loggers
    instances,              \* the SecureLogger objects of the process
    log_files,              \* application.log and security.log of each directory
    log_call                \* history: the last call on SecureLogger

vars == <<emails, check_deliverability, check_existence, domain_cache,
          email_existence_cache, bpc, results, valid_emails, domain_order,
          emails_by_domain, processed, progress_reports, await_i, tasks,
          semaphore, dtask, loop_blocked, cache_writes, verdicts,
          cache_file, mpc, cache_op, saved, runs,
          logging_state, instances, log_files, log_call>>

cacheVars == <<cache_file, mpc, cache_op, saved, runs>>
loggerVars == <<logging_state, instances, log_files, log_call>>
\* what no step of a validation changes
inputVars == <<emails, check_deliverability, check_existence, cacheVars, loggerVars>>
batchVars == <<results, valid_emails, domain_order, emails_by_domain, processed,
               progress_reports, await_i>>
existVars == <<semaphore, dtask, loop_blocked>>
\* what no step of load_cache and save_cache changes
validationVars == <<emails, check_deliverability, check_existence, bpc, batchVars,
                    tasks, existVars, cache_writes, verdicts>>

(***************************************************************************)
(* Dictionaries and lists.                                                 *)
(***************************************************************************)
Has(f, k) == k \in DOMAIN f
Put(f, k, v) == [x \in DOMAIN f \cup {k} |-> IF x = k THEN v ELSE f[x]]
InSeq(x, s) == \E i \in 1..Len(s) : s[i] = x
Range(s) == {s[i] : i \in 1..Len(s)}

\* the distinct elements of a list, in order of first occurrence
RECURSIVE Distinct(_)
Distinct(s) ==
    IF s = <<>> THEN <<>>
    ELSE LET r == Distinct(SubSeq(s, 1, Len(s) - 1))
         IN  IF InSeq(s[Len(s)], r) THEN r ELSE Append(r, s[Len(s)])

\* history: value v was written under key k
NoteWrite(w, k, v) == Put(w, k, IF Has(w, k) THEN w[k] \cup {v} ELSE {v})

(***************************************************************************)
(* validate_email_async, from its start to its await and from the await to *)
(* its end.  A call is a record: the function called, its arguments, where *)
(* it is, what its probe did and what it returned.                         *)
(***************************************************************************)
NewCall(fn, email, cd, ce) ==
    [fn |-> fn, email |-> email, cd |-> cd, ce |-> ce,
     pc |-> "created", probe |-> "none", exc |-> "", ret |-> NoRet]

\* (mutant) the cached verdict is not consulted
domain_cache_rejects_never(cd, domain, dc) == FALSE

\* (mutant) the cached verdict is looked up without regard to letter case
domain_cache_rejects_folded(cd, domain, dc) ==
    cd /\ \E k \in DOMAIN dc : lower(k) = lower(domain) /\ ~dc[k]

\* line 259-260: a cached negative verdict rejects the address
domain_cache_rejects(cd, domain, dc) ==
    cd /\ Has(dc, domain) /\ ~dc[domain]

\* lines 238-271: up to the await of the executor
validate_start(t, dc) ==
    IF ~quick_validate(t.email)
    THEN [t EXCEPT !.pc = "done", !.ret = FormatError]
    ELSE IF ~SplitHasIndex1(t.email)
    THEN [t EXCEPT !.pc = "done", !.ret = MissingAtError]
    ELSE LET domain == SplitIndex1(t.email)
         IN  IF lower(domain) \in disposable_domains
             THEN [t EXCEPT !.pc = "done", !.ret = DisposableError(domain)]
             ELSE IF domain_cache_rejects(t.cd, domain, dc)
             THEN [t EXCEPT !.pc = "done", !.ret = CachedDomainError(domain)]
             ELSE [t EXCEPT !.pc = "probing", !.probe = "running"]

\* (mutant) the verdict is stored whether or not deliverability was checked
cache_on_success_always(cd, domain, dc) == Put(dc, domain, TRUE)

\* lines 274-275: the write after validate_email returned
cache_on_success(cd, domain, dc) ==
    IF cd THEN Put(dc, domain, TRUE) ELSE dc

\* lines 290-291: the write after validate_email raised EmailNotValidError
cache_on_not_valid(cd, domain, dc) ==
    IF cd /\ ~Has(dc, domain) THEN Put(dc, domain, FALSE) ELSE dc

\* lines 273-292: the domain cache after the await
validate_resume_cache(t, dc) ==
    LET domain == SplitIndex1(t.email)
    IN  CASE t.probe = "ok" -> cache_on_success(t.cd, domain, dc)
          [] t.probe \in {"syntax", "undeliverable"} -> cache_on_not_valid(t.cd, domain, dc)
          [] OTHER -> dc

\* lines 277-292: how the call ends after the await.  With check_existence
\* the call evaluates the name `timeout` (line 279), which is neither a
\* parameter (line 223) nor a module global: NameError, which the handler
\* of line 288 does not catch.  Any exception of validate_email other than
\* EmailNotValidError propagates as well.
validate_resume(t) ==
    CASE t.probe = "ok" ->
            IF t.ce
            THEN [t EXCEPT !.pc = "raised"]
            ELSE [t EXCEPT !.pc = "done",
                           !.ret = Ret(TRUE, Normalized(t.email), "UWAGA")]
      [] t.probe \in {"syntax", "undeliverable"} ->
            [t EXCEPT !.pc = "done", !.ret = NotValidError(t.probe)]
      [] OTHER -> [t EXCEPT !.pc = "raised"]

\* the domain-cache write of a resumed call, for the history
validate_resume_writes(t, dc, w) ==
    LET domain == SplitIndex1(t.email)
        dc2 == validate_resume_cache(t, dc)
    IN  IF t.probe = "ok" /\ t.cd THEN NoteWrite(w, domain, TRUE)
        ELSE IF t.probe \in {"syntax", "undeliverable"} /\ dc2 # dc
             THEN NoteWrite(w, domain, FALSE)
             ELSE w

Finished(t) == t.pc \in {"done", "raised"}

(***************************************************************************)
(* batch_validate                                                          *)
(***************************************************************************)
\* lines 318-337: the first pass
first_pass_invalid(es) ==
    SelectSeq(es, LAMBDA e : ~quick_validate(e) \/ ~SplitHasIndex1(e))
first_pass_valid(es) == SelectSeq(es, quick_validate)
\* (mutant) the first pass records nothing for the strings it rejects
first_pass_results_none(es) == EmptyMap

first_pass_results(es) ==
    [e \in Range(first_pass_invalid(es)) |->
        IF ~quick_validate(e) THEN FormatError ELSE MissingAtError]
first_pass_domains(es) ==
    LET grouped == SelectSeq(first_pass_valid(es), SplitHasIndex1)
    IN  Distinct([i \in 1..Len(grouped) |-> SplitIndex1(grouped[i])])
first_pass_by_domain(es) ==
    LET grouped == SelectSeq(first_pass_valid(es), SplitHasIndex1)
    IN  [d \in Range(first_pass_domains(es)) |->
            SelectSeq(grouped, LAMBDA e : SplitIndex1(e) = d)]

\* lines 354-356: results[email] = ... for the calls from..to, in order
RECURSIVE collect_results(_, _, _, _)
collect_results(res, ts, from, to) ==
    IF from > to THEN res
    ELSE collect_results(Put(res, ts[from].email, ts[from].ret), ts, from + 1, to)

\* (mutant) every grouped address goes on to the existence phase
existence_filter_all(ebd, ve, res) == ebd

\* lines 369-372: drop the addresses that failed validation
existence_filter(ebd, ve, res) ==
    [d \in DOMAIN ebd |->
        SelectSeq(ebd[d], LAMBDA e : InSeq(e, ve) /\ (~Has(res, e) \/ res[e].valid))]

\* a check_domain_emails task that has not run yet (submitted and sent are
\* history: the number of work items the task has handed to its pool, and
\* the addresses they probe, in order)
NewDomainTask(domain_emails) ==
    [pc |-> "created", emails |-> domain_emails, unchecked |-> <<>>, i |-> 0,
     probes |-> <<>>, submitted |-> 0, sent |-> <<>>, exc |-> "",
     results |-> EmptyMap]


\* (mutant) the existence phase runs whatever the caller asked for
existence_requested_always(ce) == TRUE

\* line 367: `if check_existence:`
existence_requested(ce) == ce

\* lines 366-376 and 132-143, or the return of line 395: what batch_validate
\* does once the last task has been collected, up to its next await
AfterDeliverability(res) ==
    LET kept   == existence_filter(emails_by_domain, valid_emails, res)
        order2 == SelectSeq(domain_order, LAMBDA d : kept[d] # <<>>)
        ebd2   == [d \in Range(order2) |-> kept[d]]
    IN  IF existence_requested(check_existence)
        THEN /\ emails_by_domain' = ebd2
             /\ domain_order' = order2
             /\ IF order2 # <<>>
                THEN /\ bpc' = "exist"
                     /\ dtask' = [d \in Range(order2) |-> NewDomainTask(ebd2[d])]
                     /\ semaphore' = [value |-> DEFAULT_MAX_CONCURRENT_DOMAINS,
                                      waiters |-> <<>>]
                ELSE /\ bpc' = "done"
                     /\ UNCHANGED <<dtask, semaphore>>
        ELSE /\ bpc' = "done"
             /\ UNCHANGED <<emails_by_domain, domain_order, dtask, semaphore>>

\* lines 308-351: from the call of batch_validate to its first await
BatchPartition ==
    /\ bpc = "start"
    /\ valid_emails' = first_pass_valid(emails)
    /\ processed' = Len(first_pass_invalid(emails))
    /\ progress_reports' = {}
    /\ tasks' = [i \in 1..Len(first_pass_valid(emails)) |->
                    NewCall("validate_email_async", first_pass_valid(emails)[i],
                            check_deliverability, FALSE)]
    /\ await_i' = 1
    /\ results' = first_pass_results(emails)
    /\ IF first_pass_valid(emails) = <<>>
       THEN \* no task to await: the function runs on to line 366
            /\ emails_by_domain' = first_pass_by_domain(emails)
            /\ domain_order' = first_pass_domains(emails)
            /\ bpc' = "done"
            /\ UNCHANGED <<dtask, semaphore>>
       ELSE /\ emails_by_domain' = first_pass_by_domain(emails)
            /\ domain_order' = first_pass_domains(emails)
            /\ bpc' = "deliv"
            /\ UNCHANGED <<dtask, semaphore>>
    /\ UNCHANGED <<inputVars, domain_cache, email_existence_cache, loop_blocked,
                   cache_writes, verdicts>>

\* The event loop runs the ready callbacks in the order they were scheduled:
\* every task created before the first await runs to its own await before
\* any of them is resumed.
AllStarted == \A j \in 1..Len(tasks) : tasks[j].pc # "created"

\* validate_email_async, lines 238-271
TaskStart(i) ==
    /\ bpc \in {"deliv", "caller"}
    /\ i \in 1..Len(tasks)
    /\ tasks[i].fn = "validate_email_async"
    /\ tasks[i].pc = "created"
    /\ \A j \in 1..(i - 1) : tasks[j].pc # "created"
    /\ tasks' = [tasks EXCEPT ![i] = validate_start(tasks[i], domain_cache)]
    /\ UNCHANGED <<inputVars, domain_cache, email_existence_cache, bpc, batchVars,
                   existVars, cache_writes, verdicts>>

\* validate_email_async, lines 273-292: the worker thread's call of
\* validate_email(email, check_deliverability=...) has ended with `outcome`
\* (it touches no state of the program) and the event loop resumes the call
TaskResume(i, outcome) ==
    /\ bpc \in {"deliv", "caller"}
    /\ i \in 1..Len(tasks)
    /\ tasks[i].fn = "validate_email_async"
    /\ tasks[i].pc = "probing"
    /\ outcome \in DelivOutcomes(tasks[i].cd)
    /\ AllStarted
    /\ LET t == [tasks[i] EXCEPT !.probe = outcome]
       IN  /\ tasks' = [tasks EXCEPT ![i] = validate_resume(t)]
           /\ domain_cache' = validate_resume_cache(t, domain_cache)
           /\ cache_writes' = [cache_writes EXCEPT
                   !.domains = validate_resume_writes(t, domain_cache, @)]
    /\ UNCHANGED <<inputVars, email_existence_cache, bpc, batchVars, existVars, verdicts>>

\* (mutant) progress is printed for every task
progress_indices_all(from, to) == from..to

\* line 359: `if show_progress and i % 10 == 0`, for the tasks from..to of
\* enumerate(tasks)
progress_indices(from, to) == {i \in from..to : i % PROGRESS_EVERY = 0}

\* batch_validate, lines 354-364: it is resumed when the task it awaits is
\* finished and collects every task that is finished already (awaiting a
\* finished task does not suspend); an exception of a task leaves
\* batch_validate at line 355.  After the last task it runs on to its next await.
BatchCollect ==
    /\ bpc = "deliv"
    /\ await_i \in 1..Len(tasks)
    /\ Finished(tasks[await_i])
    /\ LET n == Len(tasks)
           pending == {j \in await_i..n : tasks[j].pc # "done"}
           stop == IF pending = {} THEN n + 1
                   ELSE CHOOSE j \in pending : \A k \in pending : j <= k
           res == collect_results(results, tasks, await_i, stop - 1)
       IN  /\ results' = res
           /\ processed' = processed + (stop - await_i)
           /\ progress_reports' =
                 progress_reports \cup progress_indices(await_i - 1, stop - 2)
           /\ await_i' = stop
           /\ IF stop > n
              THEN AfterDeliverability(res)
              ELSE /\ bpc' = IF tasks[stop].pc = "raised" THEN "raised" ELSE "deliv"
                   /\ UNCHANGED <<emails_by_domain, domain_order, dtask, semaphore>>
    /\ UNCHANGED <<inputVars, domain_cache, email_existence_cache, valid_emails,
                   tasks, loop_blocked, cache_writes, verdicts>>

(***************************************************************************)
(* check_email_exists_batch and check_domain_emails                        *)
(***************************************************************************)
ERes(exists, msg) == [exists |-> exists, msg |-> msg]
NotExistsMsg == Msg("not_exists", <<>>, "")
NotExistsCachedMsg == Msg("not_exists_cached", <<>>, "")
DomainErrorMsg(domain, err) == Msg("domain_error", domain, err)
ExistsErrorMsg(err) == Msg("exists_error", <<>>, err)

\* lines 168-175: the addresses answered from the cache, and the others
cached_results(es, cache) ==
    [e \in {x \in Range(es) : Has(cache, x)} |->
        ERes(cache[e], IF cache[e] THEN NoMsg ELSE NotExistsCachedMsg)]
\* (mutant) the cache does not spare an address its probe
unchecked_emails_all(es, cache) == es

unchecked_emails(es, cache) == SelectSeq(es, LAMBDA e : ~Has(cache, e))

\* line 188: unchecked_emails[i:i+DEFAULT_BATCH_SIZE]
Min(a, b) == IF a <= b THEN a ELSE b
\* (mutant) the slice starts one address early
batch_at_overlap(unchecked, i) ==
    SubSeq(unchecked, IF i = 0 THEN 1 ELSE i,
           IF i + DEFAULT_BATCH_SIZE <= Len(unchecked)
           THEN i + DEFAULT_BATCH_SIZE ELSE Len(unchecked))

\* (mutant) the slice runs to the end of the list
batch_at_rest(unchecked, i) == SubSeq(unchecked, i + 1, Len(unchecked))

batch_at(unchecked, i) ==
    SubSeq(unchecked, i + 1, Min(i + DEFAULT_BATCH_SIZE, Len(unchecked)))

\* ThreadPoolExecutor(max_workers=DEFAULT_MAX_WORKERS), line 185: the pool
\* runs its oldest queued work items on its free worker threads
Running(probes) == {k \in 1..Len(probes) : probes[k] = "running"}
Queued(probes) == {k \in 1..Len(probes) : probes[k] = "queued"}
RECURSIVE pool_dispatch(_)
pool_dispatch(probes) ==
    IF Queued(probes) # {} /\ Cardinality(Running(probes)) < DEFAULT_MAX_WORKERS
    THEN LET k == CHOOSE q \in Queued(probes) : \A r \in Queued(probes) : q <= r
         IN  pool_dispatch([probes EXCEPT ![k] = "running"])
    ELSE probes

\* lines 189-208: one work item per address of the batch is handed to the pool
submit_batch(t, i) ==
    [t EXCEPT !.pc = "gated", !.i = i, !.exc = "",
              !.submitted = @ + Len(batch_at(t.unchecked, i)),
              !.sent = @ \o batch_at(t.unchecked, i),
              !.probes = pool_dispatch(
                  [k \in 1..Len(batch_at(t.unchecked, i)) |-> "queued"])]

\* (mutant) leaving the `async with` block does not give the permit back
semaphore_release_lost(sem) == sem

\* line 181, the exit of `async with semaphore`: Semaphore.release()
semaphore_release(sem) == [sem EXCEPT !.value = @ + 1]

\* (mutant) the gate admits every task
semaphore_free_always(sem) == TRUE

\* line 181: the semaphore admits a task while its value is positive
semaphore_free(sem) == sem.value > 0

\* (mutant) a raised probe is taken as an answer instead of an exception
gather_raises_never(probes) == FALSE

\* asyncio.gather (line 189) raises as soon as one of its awaitables has raised
gather_raises(probes) == \E k \in 1..Len(probes) : probes[k] = "raised"
\* (mutant) gather returns while work items are still running
all_returned_any(probes) == TRUE

\* gather returns (or the pool's shutdown ends) when every work item has ended
all_returned(probes) == \A k \in 1..Len(probes) : probes[k] \in ExistOutcomes

\* lines 210-213: the cache, the results and the history after one batch
RECURSIVE record_batch(_, _, _, _)
record_batch(acc, batch, probes, k) ==
    IF k > Len(batch) THEN acc
    ELSE LET exists == (probes[k] = "T")
         IN  record_batch(
                [cache   |-> Put(acc.cache, batch[k], exists),
                 results |-> Put(acc.results, batch[k],
                                 ERes(exists, IF exists THEN NoMsg ELSE NotExistsMsg)),
                 writes  |-> NoteWrite(acc.writes, batch[k], exists)],
                batch, probes, k + 1)

\* (mutant) the except branch fills in nothing
domain_failure_results_skip(res, unchecked, error_msg) == res

\* lines 214-219: every unchecked address without a result gets the domain's error
domain_failure_results(res, unchecked, error_msg) ==
    [e \in DOMAIN res \cup Range(unchecked) |->
        IF Has(res, e) THEN res[e] ELSE ERes(FALSE, error_msg)]

Unblocked == loop_blocked = <<>>

\* lines 166-181 (and 185-208 when the semaphore is free)
DomainStart(d) ==
    /\ bpc = "exist"
    /\ Unblocked
    /\ d \in DOMAIN dtask
    /\ dtask[d].pc = "created"
    /\ \E k \in 1..Len(domain_order) :
          /\ domain_order[k] = d
          /\ \A j \in 1..(k - 1) : dtask[domain_order[j]].pc # "created"
    /\ LET t   == dtask[d]
           res == cached_results(t.emails, email_existence_cache)
           unc == unchecked_emails(t.emails, email_existence_cache)
           t1  == [t EXCEPT !.results = res, !.unchecked = unc]
       IN  IF unc = <<>>
           THEN /\ dtask' = [dtask EXCEPT ![d] = [t1 EXCEPT !.pc = "done"]]
                /\ UNCHANGED semaphore
           ELSE IF semaphore_free(semaphore)
           THEN /\ dtask' = [dtask EXCEPT ![d] = submit_batch(t1, 0)]
                /\ semaphore' = [semaphore EXCEPT !.value = @ - 1]
           ELSE /\ dtask' = [dtask EXCEPT ![d] = [t1 EXCEPT !.pc = "waiting"]]
                /\ semaphore' = [semaphore EXCEPT !.waiters = Append(@, d)]
    /\ UNCHANGED <<inputVars, domain_cache, email_existence_cache, bpc, batchVars,
                   tasks, loop_blocked, cache_writes, verdicts>>

\* line 181: the first waiter is admitted after a release
DomainAdmit(d) ==
    /\ bpc = "exist"
    /\ Unblocked
    /\ d \in DOMAIN dtask
    /\ dtask[d].pc = "waiting"
    /\ semaphore.waiters # <<>>
    /\ Head(semaphore.waiters) = d
    /\ semaphore_free(semaphore)
    /\ dtask' = [dtask EXCEPT ![d] = submit_batch(dtask[d], 0)]
    /\ semaphore' = [value |-> semaphore.value - 1, waiters |-> Tail(semaphore.waiters)]
    /\ UNCHANGED <<inputVars, domain_cache, email_existence_cache, bpc, batchVars,
                   tasks, loop_blocked, cache_writes, verdicts>>

\* (mutant) the worker thread stores its answer in the cache itself
WorkerFinish_writes(d, k, outcome, err) ==
    /\ d \in DOMAIN dtask
    /\ k \in 1..Len(dtask[d].probes)
    /\ dtask[d].probes[k] = "running"
    /\ outcome \in ExistOutcomes
    /\ err \in ErrTexts
    /\ outcome # "raised" => err = "timeout"
    /\ IF outcome = "raised"
       THEN /\ dtask' = [dtask EXCEPT
                          ![d].probes = pool_dispatch([@ EXCEPT ![k] = outcome]),
                          ![d].exc = IF @ = "" THEN err ELSE @]
            /\ UNCHANGED <<verdicts, email_existence_cache>>
       ELSE /\ dtask' = [dtask EXCEPT
                          ![d].probes = pool_dispatch([@ EXCEPT ![k] = outcome])]
            /\ verdicts' = verdicts \cup
                  {<<batch_at(dtask[d].unchecked, dtask[d].i)[k], outcome = "T">>}
            /\ email_existence_cache' =
                  Put(email_existence_cache,
                      batch_at(dtask[d].unchecked, dtask[d].i)[k], outcome = "T")
    /\ UNCHANGED <<inputVars, domain_cache, bpc, batchVars,
                   tasks, semaphore, loop_blocked, cache_writes>>

\* a worker thread: verify_email_exists(e, ...) ends (lines 192-206) and the
\* thread takes the pool's next queued work item
WorkerFinish(d, k, outcome, err) ==
    /\ d \in DOMAIN dtask
    /\ k \in 1..Len(dtask[d].probes)
    /\ dtask[d].probes[k] = "running"
    /\ outcome \in ExistOutcomes
    /\ err \in ErrTexts
    /\ outcome # "raised" => err = "timeout"
    /\ IF outcome = "raised"
       THEN /\ dtask' = [dtask EXCEPT
                          ![d].probes = pool_dispatch([@ EXCEPT ![k] = outcome]),
                          ![d].exc = IF @ = "" THEN err ELSE @]
            /\ UNCHANGED verdicts
       ELSE /\ dtask' = [dtask EXCEPT
                          ![d].probes = pool_dispatch([@ EXCEPT ![k] = outcome])]
            /\ verdicts' = verdicts \cup
                  {<<batch_at(dtask[d].unchecked, dtask[d].i)[k], outcome = "T">>}
    /\ UNCHANGED <<inputVars, domain_cache, email_existence_cache, bpc, batchVars,
                   tasks, semaphore, loop_blocked, cache_writes>>

\* lines 208-213, then the next batch (187-208) or the end (221)
DomainBatchDone(d) ==
    /\ bpc = "exist"
    /\ Unblocked
    /\ d \in DOMAIN dtask
    /\ dtask[d].pc = "gated"
    /\ all_returned(dtask[d].probes)
    /\ ~gather_raises(dtask[d].probes)
    /\ LET t     == dtask[d]
           acc   == record_batch([cache |-> email_existence_cache,
                                  results |-> t.results,
                                  writes |-> cache_writes.emails],
                                 batch_at(t.unchecked, t.i), t.probes, 1)
           t1    == [t EXCEPT !.results = acc.results, !.probes = <<>>]
           nexti == t.i + DEFAULT_BATCH_SIZE
       IN  /\ email_existence_cache' = acc.cache
           /\ cache_writes' = [cache_writes EXCEPT !.emails = acc.writes]
           /\ IF nexti < Len(t.unchecked)
              THEN /\ dtask' = [dtask EXCEPT ![d] = submit_batch(t1, nexti)]
                   /\ UNCHANGED semaphore
              ELSE /\ dtask' = [dtask EXCEPT ![d] = [t1 EXCEPT !.pc = "done"]]
                   /\ semaphore' = semaphore_release(semaphore)
    /\ UNCHANGED <<inputVars, domain_cache, bpc, batchVars, tasks, loop_blocked, verdicts>>

\* (mutant) the except branch keeps the answers of the probes that returned
domain_fail_keep_returned(t, d) ==
    [t EXCEPT !.pc = "done", !.probes = <<>>,
              !.results = domain_failure_results(
                  [e \in DOMAIN t.results \cup
                         {batch_at(t.unchecked, t.i)[k] :
                             k \in {n \in 1..Len(t.probes) : t.probes[n] \in {"T", "F"}}} |->
                      IF Has(t.results, e) THEN t.results[e] ELSE ERes(TRUE, NoMsg)],
                  t.unchecked, DomainErrorMsg(d, t.exc))]

\* lines 214-221: the except branch and the release of the semaphore
domain_fail(t, d) ==
    [t EXCEPT !.pc = "done", !.probes = <<>>,
              !.results = domain_failure_results(t.results, t.unchecked,
                                                 DomainErrorMsg(d, t.exc))]

\* gather raised: the exception leaves the `with ThreadPoolExecutor` block
\* (line 185), whose exit waits for every work item of the pool
\* (shutdown(wait=True)) on the event-loop thread; then the except branch runs.
DomainBatchFail(d) ==
    /\ bpc = "exist"
    /\ Unblocked
    /\ d \in DOMAIN dtask
    /\ dtask[d].pc = "gated"
    /\ gather_raises(dtask[d].probes)
    /\ IF all_returned(dtask[d].probes)
       THEN /\ dtask' = [dtask EXCEPT ![d] = domain_fail(dtask[d], d)]
            /\ semaphore' = semaphore_release(semaphore)
            /\ UNCHANGED loop_blocked
       ELSE /\ dtask' = [dtask EXCEPT ![d].pc = "shutdown"]
            /\ loop_blocked' = d
            /\ UNCHANGED semaphore
    /\ UNCHANGED <<inputVars, domain_cache, email_existence_cache, bpc, batchVars,
                   tasks, cache_writes, verdicts>>

\* the pool's last work item has ended: the except branch runs (lines 214-221)
DomainShutdownDone(d) ==
    /\ bpc = "exist"
    /\ loop_blocked = d
    /\ d \in DOMAIN dtask
    /\ dtask[d].pc = "shutdown"
    /\ all_returned(dtask[d].probes)
    /\ dtask' = [dtask EXCEPT ![d] = domain_fail(dtask[d], d)]
    /\ semaphore' = semaphore_release(semaphore)
    /\ loop_blocked' = <<>>
    /\ UNCHANGED <<inputVars, domain_cache, email_existence_cache, bpc, batchVars,
                   tasks, cache_writes, verdicts>>

\* lines 146-147: results.update(domain_result) for every domain, in order
RECURSIVE combine_results(_, _, _)
combine_results(acc, order, k) ==
    IF k > Len(order) THEN acc
    ELSE LET r == dtask[order[k]].results
         IN  combine_results([e \in DOMAIN acc \cup DOMAIN r |->
                                 IF Has(r, e) THEN r[e] ELSE acc[e]], order, k + 1)

\* lines 379-390: the existence answers are merged into the results
merge_existence(res, existence_results) ==
    [e \in DOMAIN res |->
        IF Has(existence_results, e) /\ res[e].valid
        THEN IF existence_results[e].exists
             THEN [res[e] EXCEPT !.warning = "none"]
             ELSE Ret(FALSE, existence_results[e].msg, "none")
        ELSE res[e]]

\* lines 143-149 and 376-395: every domain task has ended
ExistDone ==
    /\ bpc = "exist"
    /\ Unblocked
    /\ \A d \in DOMAIN dtask : dtask[d].pc = "done"
    /\ results' = merge_existence(results, combine_results(EmptyMap, domain_order, 1))
    /\ bpc' = "done"
    /\ UNCHANGED <<inputVars, domain_cache, email_existence_cache, valid_emails,
                   domain_order, emails_by_domain, processed, progress_reports,
                   await_i, tasks, existVars, cache_writes, verdicts>>

(***************************************************************************)
(* check_email_exists, and the caller that awaits one call after another   *)
(* (interactive_mode, lines 472-479; main_async, line 545).                *)
(***************************************************************************)
\* lines 83-107: the cache is consulted, then the probe is handed to a pool
exists_start(t, cache) ==
    IF Has(cache, t.email)
    THEN [t EXCEPT !.pc = "done",
                   !.ret = Ret(cache[t.email],
                               IF cache[t.email] THEN NoMsg ELSE NotExistsCachedMsg,
                               "none")]
    ELSE [t EXCEPT !.pc = "probing", !.probe = "running"]

\* lines 109-110: the write after verify_email_exists returned
exists_cache_after(t, cache) ==
    IF t.probe \in {"T", "F"} THEN Put(cache, t.email, t.probe = "T") ELSE cache

\* lines 112-117: the value returned after the await
exists_resume(t) ==
    CASE t.probe = "T" -> [t EXCEPT !.pc = "done", !.ret = Ret(TRUE, NoMsg, "none")]
      [] t.probe = "F" -> [t EXCEPT !.pc = "done", !.ret = Ret(FALSE, NotExistsMsg, "none")]
      [] OTHER -> [t EXCEPT !.pc = "done",
                            !.ret = Ret(FALSE, ExistsErrorMsg(t.exc), "none")]

\* the caller awaits a call of validate_email_async or of check_email_exists;
\* an exception of a call ends the caller
Call(fn, email, cd, ce) ==
    /\ bpc = "caller"
    /\ Len(tasks) < MaxCalls
    /\ \A j \in 1..Len(tasks) : tasks[j].pc = "done"
    /\ fn = "check_email_exists" => (~cd /\ ~ce)
    /\ tasks' = Append(tasks, NewCall(fn, email, cd, ce))
    /\ UNCHANGED <<inputVars, domain_cache, email_existence_cache, bpc, batchVars,
                   existVars, cache_writes, verdicts>>

\* check_email_exists, lines 83-107
ExistsStart(i) ==
    /\ bpc = "caller"
    /\ i \in 1..Len(tasks)
    /\ tasks[i].fn = "check_email_exists"
    /\ tasks[i].pc = "created"
    /\ tasks' = [tasks EXCEPT ![i] = exists_start(tasks[i], email_existence_cache)]
    /\ UNCHANGED <<inputVars, domain_cache, email_existence_cache, bpc, batchVars,
                   existVars, cache_writes, verdicts>>

\* check_email_exists, lines 109-117: the worker thread's call of
\* verify_email_exists has ended with `outcome` and the call is resumed
ExistsResume(i, outcome, err) ==
    /\ bpc = "caller"
    /\ i \in 1..Len(tasks)
    /\ tasks[i].fn = "check_email_exists"
    /\ tasks[i].pc = "probing"
    /\ outcome \in ExistOutcomes
    /\ err \in ErrTexts
    /\ LET t == [tasks[i] EXCEPT !.probe = outcome,
                                 !.exc = IF outcome = "raised" THEN err ELSE ""]
       IN  /\ tasks' = [tasks EXCEPT ![i] = exists_resume(t)]
           /\ email_existence_cache' = exists_cache_after(t, email_existence_cache)
           /\ IF outcome = "raised"
              THEN UNCHANGED <<cache_writes, verdicts>>
              ELSE /\ verdicts' = verdicts \cup {<<t.email, outcome = "T">>}
                   /\ cache_writes' = [cache_writes EXCEPT
                          !.emails = NoteWrite(@, t.email, outcome = "T")]
    /\ UNCHANGED <<inputVars, domain_cache, bpc, batchVars, existVars>>

(***************************************************************************)
(* The cache file: json.dump and json.load on the texts save_cache writes   *)
(* and load_cache reads.  A text is a sequence of characters.               *)
(***************************************************************************)
QUOTE == "\""
BACKSLASH == "\\"
NEWLINE == "\n"
K_DOMAINS == <<"d","o","m","a","i","n","s">>
K_EMAILS == <<"e","m","a","i","l","s">>
W_TRUE == <<"t","r","u","e">>
W_FALSE == <<"f","a","l","s","e">>
W_NULL == <<"n","u","l","l">>

\* A value of the program that is not a dict of str to bool is kept as the
\* JSON text it was read from, under a key no str can be.
Opaque(raw) == (<<"json">> \o raw) :> FALSE
IsOpaque(value) == \E k \in DOMAIN value : k # <<>> /\ Head(k) = "json"
OpaqueText(value) == Tail(CHOOSE k \in DOMAIN value : k # <<>> /\ Head(k) = "json")
\* len(value) is defined for dicts, lists and strings (line 40, line 54)
has_len(value) ==
    ~IsOpaque(value) \/ Head(OpaqueText(value)) \in {"{", "[", QUOTE}

\* (mutant) a key is written between quotes as it is
py_encode_basestring_raw(s) == <<QUOTE>> \o s \o <<QUOTE>>

\* json.dump of a str: quotes, backslashes and newlines are escaped
RECURSIVE escape_chars(_)
escape_chars(s) ==
    IF s = <<>> THEN <<>>
    ELSE (CASE Head(s) = QUOTE -> <<BACKSLASH, QUOTE>>
            [] Head(s) = BACKSLASH -> <<BACKSLASH, BACKSLASH>>
            [] Head(s) = NEWLINE -> <<BACKSLASH, "n">>
            [] OTHER -> <<Head(s)>>) \o escape_chars(Tail(s))
py_encode_basestring(s) == <<QUOTE>> \o escape_chars(s) \o <<QUOTE>>

\* json.dump of a dict of str to bool, its items in the order `order`
RECURSIVE dump_items(_, _)
dump_items(d, order) ==
    IF order = <<>> THEN <<>>
    ELSE py_encode_basestring(Head(order)) \o <<":", " ">>
            \o (IF d[Head(order)] THEN W_TRUE ELSE W_FALSE)
            \o (IF Len(order) > 1 THEN <<",", " ">> ELSE <<>>)
            \o dump_items(d, Tail(order))
dump_value(value, order) ==
    IF IsOpaque(value) THEN OpaqueText(value)
    ELSE <<"{">> \o dump_items(value, order) \o <<"}">>

\* the orders in which a dict can hold its keys
Orders(d) ==
    {o \in [1..Cardinality(DOMAIN d) -> DOMAIN d] :
        \A i, j \in 1..Len(o) : i # j => o[i] # o[j]}

\* save_cache, lines 48-53: json.dump({'domains': ..., 'emails': ...}, f)
dump_cache_data(dom, eml, od, oe) ==
    <<"{">> \o py_encode_basestring(K_DOMAINS) \o <<":", " ">> \o dump_value(dom, od)
        \o <<",", " ">>
        \o py_encode_basestring(K_EMAILS) \o <<":", " ">> \o dump_value(eml, oe)
        \o <<"}">>

\* json.load: a parsed value with the text it was read from
JValue(kind, raw, str, b, m) == [kind |-> kind, raw |-> raw, str |-> str, b |-> b, m |-> m]
JNull == JValue("null", W_NULL, <<>>, FALSE, EmptyMap)
JFail == [ok |-> FALSE, v |-> JNull, i |-> 0]
JOk(v, i) == [ok |-> TRUE, v |-> v, i |-> i]
Whitespace == {" ", NEWLINE, "\t", "\r"}

RECURSIVE skip_ws(_, _)
skip_ws(s, i) == IF i <= Len(s) /\ s[i] \in Whitespace THEN skip_ws(s, i + 1) ELSE i

At(s, i) == IF i \in 1..Len(s) THEN s[i] ELSE ""
StartsAt(s, i, w) == i + Len(w) - 1 <= Len(s) /\ SubSeq(s, i, i + Len(w) - 1) = w

\* the characters of a string from position i up to its closing quote
RECURSIVE scan_string(_, _, _)
scan_string(s, i, acc) ==
    IF i > Len(s) \/ s[i] \in {NEWLINE, "\t", "\r"} THEN [ok |-> FALSE, str |-> <<>>, i |-> 0]
    ELSE IF s[i] = QUOTE THEN [ok |-> TRUE, str |-> acc, i |-> i + 1]
    ELSE IF s[i] = BACKSLASH
    THEN CASE At(s, i + 1) = QUOTE -> scan_string(s, i + 2, Append(acc, QUOTE))
           [] At(s, i + 1) = BACKSLASH -> scan_string(s, i + 2, Append(acc, BACKSLASH))
           [] At(s, i + 1) = "/" -> scan_string(s, i + 2, Append(acc, "/"))
           [] At(s, i + 1) = "n" -> scan_string(s, i + 2, Append(acc, NEWLINE))
           [] At(s, i + 1) = "r" -> scan_string(s, i + 2, Append(acc, "\r"))
           [] At(s, i + 1) = "t" -> scan_string(s, i + 2, Append(acc, "\t"))
           [] OTHER -> [ok |-> FALSE, str |-> <<>>, i |-> 0]
    ELSE scan_string(s, i + 1, Append(acc, s[i]))

RECURSIVE scan_digits(_, _)
scan_digits(s, i) == IF At(s, i) \in Digits THEN scan_digits(s, i + 1) ELSE i

\* an integer: -? (0 | [1-9][0-9]*)
scan_number(s, i) ==
    LET j == IF At(s, i) = "-" THEN i + 1 ELSE i
    IN  IF At(s, j) = "0" THEN j + 1
        ELSE IF At(s, j) \in Digits THEN scan_digits(s, j)
        ELSE 0

RECURSIVE parse_value(_, _)
RECURSIVE parse_members(_, _, _, _)
RECURSIVE parse_items(_, _, _)

\* the members of an object from position i (a key is expected there); i0 is
\* the position of the object's brace; a repeated key keeps its last value
parse_members(s, i0, i, m) ==
    IF At(s, i) # QUOTE THEN JFail
    ELSE LET k == scan_string(s, i + 1, <<>>)
         IN  IF ~k.ok THEN JFail
             ELSE LET c == skip_ws(s, k.i)
                  IN  IF At(s, c) # ":" THEN JFail
                      ELSE LET v == parse_value(s, skip_ws(s, c + 1))
                           IN  IF ~v.ok THEN JFail
                               ELSE LET e == skip_ws(s, v.i)
                                        m2 == Put(m, k.str, v.v)
                                    IN  IF At(s, e) = "}"
                                        THEN JOk(JValue("obj", SubSeq(s, i0, e), <<>>,
                                                        FALSE, m2), e + 1)
                                        ELSE IF At(s, e) = ","
                                        THEN parse_members(s, i0, skip_ws(s, e + 1), m2)
                                        ELSE JFail

\* the items of an array from position i (a value is expected there)
parse_items(s, i0, i) ==
    LET v == parse_value(s, i)
    IN  IF ~v.ok THEN JFail
        ELSE LET e == skip_ws(s, v.i)
             IN  IF At(s, e) = "]"
                 THEN JOk(JValue("arr", SubSeq(s, i0, e), <<>>, FALSE, EmptyMap), e + 1)
                 ELSE IF At(s, e) = "," THEN parse_items(s, i0, skip_ws(s, e + 1))
                 ELSE JFail

\* the value that starts at position i
parse_value(s, i) ==
    CASE At(s, i) = "{" ->
            LET j == skip_ws(s, i + 1)
            IN  IF At(s, j) = "}"
                THEN JOk(JValue("obj", SubSeq(s, i, j), <<>>, FALSE, EmptyMap), j + 1)
                ELSE parse_members(s, i, j, EmptyMap)
      [] At(s, i) = "[" ->
            LET j == skip_ws(s, i + 1)
            IN  IF At(s, j) = "]"
                THEN JOk(JValue("arr", SubSeq(s, i, j), <<>>, FALSE, EmptyMap), j + 1)
                ELSE parse_items(s, i, j)
      [] At(s, i) = QUOTE ->
            LET k == scan_string(s, i + 1, <<>>)
            IN  IF k.ok
                THEN JOk(JValue("str", SubSeq(s, i, k.i - 1), k.str, FALSE, EmptyMap), k.i)
                ELSE JFail
      [] StartsAt(s, i, W_TRUE) -> JOk(JValue("bool", W_TRUE, <<>>, TRUE, EmptyMap), i + 4)
      [] StartsAt(s, i, W_FALSE) -> JOk(JValue("bool", W_FALSE, <<>>, FALSE, EmptyMap), i + 5)
      [] StartsAt(s, i, W_NULL) -> JOk(JNull, i + 4)
      [] OTHER ->
            LET j == scan_number(s, i)
            IN  IF j > i /\ At(s, j - 1) \in Digits
                THEN JOk(JValue("int", SubSeq(s, i, j - 1), <<>>, FALSE, EmptyMap), j)
                ELSE JFail

\* json.load(f): one value, with nothing but white space around it
json_load(s) ==
    LET v == parse_value(s, skip_ws(s, 1))
    IN  IF v.ok /\ skip_ws(s, v.i) = Len(s) + 1 THEN v ELSE JFail

\* the value of the program for a parsed value
is_bool_dict(v) == v.kind = "obj" /\ \A k \in DOMAIN v.m : v.m[k].kind = "bool"
py_value(v) ==
    IF is_bool_dict(v) THEN [k \in DOMAIN v.m |-> v.m[k].b] ELSE Opaque(v.raw)

\* cache_data.get(key, {}), lines 38-39
get_or_empty(v, key) == IF Has(v.m, key) THEN py_value(v.m[key]) ELSE EmptyMap

(***************************************************************************)
(* src/Logger/logger.py: SecureLogger.  The loggers "SecureLogger" and     *)
(* "SecurityLogger" of the logging module are shared by every instance of  *)
(* the class in a process.                                                 *)
(***************************************************************************)
MaxLoggers == 2
MaxLogCalls == 2

\* line 127: `if len(message) > 10000`; the limit is scaled down here, the
\* messages below are as long as the limit and longer
MAX_MESSAGE_LENGTH == 16
\* line 128: "... (message truncated)"
TRUNCATION_MARKER == <<".",".","."," ","(","m","e","s","s","a","g","e"," ","t","r","u","n","c","a","t","e","d",")">>

Levels == {"DEBUG", "INFO", "WARNING"}
LevelNo(l) == CASE l = "DEBUG" -> 1 [] l = "INFO" -> 2 [] l = "WARNING" -> 3

\* (mutant) the message is logged as it came
sanitize_log_message_keep(message) == message

\* _sanitize_log_message, lines 113-130
sanitize_log_message(message) ==
    LET replaced == [i \in 1..Len(message) |->
                        IF message[i] \in {NEWLINE, "\r"} THEN " " ELSE message[i]]
    IN  IF Len(replaced) > MAX_MESSAGE_LENGTH
        THEN SubSeq(replaced, 1, MAX_MESSAGE_LENGTH) \o TRUNCATION_MARKER
        ELSE replaced

\* re.compile(pattern, re.IGNORECASE).search(message), line 109, on the
\* lowered message: the positions where a word starts
Positions(m, w) ==
    {i \in 1..(Len(m) - Len(w) + 1) : m[i] = w[1] /\ SubSeq(m, i, i + Len(w) - 1) = w}
\* (?:w1|w2|...)
ContainsAny(m, ws) == \E w \in ws : Positions(m, w) # {}
\* (?:v1|v2|...).*(?:w1|w2|...): on a message without newlines
ContainsThen(m, vs, ws) ==
    \E v \in vs : \E w \in ws :
        \E i \in Positions(m, v) : \E j \in Positions(m, w) : j >= i + Len(v)

\* SUSPICIOUS_PATTERNS, lines 15-25, by their index in the list
pattern_matches(n, m) ==
    CASE n = 1 -> ContainsAny(m, {<<"k","e","y","l","o","g">>})
      [] n = 2 -> ContainsThen(m, {<<"p","a","s","s","w","o","r","d">>, <<"c","r","e","d","e","n","t","i","a","l">>},
                               {<<"s","t","e","a","l">>, <<"c","a","p","t","u","r","e">>})
      [] n = 3 -> ContainsThen(m, {<<"r","e","g","i","s","t","r","y">>, <<"r","e","g","e","d","i","t">>},
                               {<<"m","o","d","i","f","y">>, <<"c","h","a","n","g","e">>})
      [] n = 4 -> ContainsAny(m, {<<"s","t","a","r","t","u","p">>, <<"a","u","t","o","r","u","n">>})
      [] n = 5 -> ContainsThen(m, {<<"a","n","t","i","v","i","r","u","s">>, <<"d","e","f","e","n","d","e","r">>},
                               {<<"b","y","p","a","s","s">>, <<"a","v","o","i","d">>, <<"e","v","a","d","e">>})
      [] n = 6 -> ContainsAny(m, {<<"s","m","t","p","l","i","b">>})
      [] n = 7 -> ContainsAny(m, {<<"o","b","f","u","s","c","a","t","e">>, <<"o","b","f","u","s","c","a","t","i","o","n">>})
      [] n = 8 -> ContainsThen(m, {<<"s","a","n","d","b","o","x">>}, {<<"d","e","t","e","c","t">>})
      [] n = 9 -> ContainsAny(m, {<<"m","a","l","w","a","r","e">>, <<"v","i","r","u","s">>, <<"t","r","o","j","a","n">>, <<"b","a","c","k","d","o","o","r">>})

\* _check_for_suspicious_content, lines 93-111: the matched patterns, in order
check_for_suspicious_content(scan, message) ==
    IF ~scan THEN <<>>
    ELSE LET m == [i \in 1..Len(message) |-> LowerChar(message[i])]
         IN  SelectSeq([n \in 1..9 |-> n], LAMBDA n : pattern_matches(n, m))

\* the parameters of SecureLogger.__init__, lines 27-31
InitParams == {"log_dir", "log_level", "max_log_size", "backup_count",
               "enable_security_scan"}
\* a call of the constructor: the keywords passed and the values in force
\* (a parameter that is not passed has its default)
ConstructorCall(names, log_dir, log_level, scan) ==
    [names |-> names, log_dir |-> log_dir, log_level |-> log_level,
     enable_security_scan |-> scan]
LogDirs == {"logs", "test_logs"}
ConstructorCalls == {
    ConstructorCall({}, "logs", "INFO", TRUE),
    ConstructorCall({"log_dir"}, "test_logs", "INFO", TRUE),
    ConstructorCall({"log_level"}, "logs", "DEBUG", TRUE),
    ConstructorCall({"enable_security_scan"}, "logs", "INFO", FALSE),
    ConstructorCall({"log_dir", "enable_email_alerts", "email_config"},
                    "test_logs", "INFO", TRUE)}

\* the messages that are logged
XS(n) == [i \in 1..n |-> "x"]
M_PLAIN == <<"o","k">>
M_KEYLOGGER == <<"T","h","e"," ","K","e","y","L","o","g","g","e","r"," ","r","u","n","s">>
M_SPLIT == <<"k","e","y",NEWLINE,"l","o","g","\r">>
M_CRLF == <<"a","\r",NEWLINE>> \o <<"t","r","o","j","a","n"," ","k","e","y","l","o","g">>
M_STEAL_FIRST == <<"s","t","e","a","l"," ","p","a","s","s","w","o","r","d">>
M_PASSWORD_FIRST == <<"p","a","s","s","w","o","r","d"," ","t","o"," ","s","t","e","a","l">>
M_LIMIT == XS(MAX_MESSAGE_LENGTH - 1) \o <<NEWLINE>>
M_OVER == XS(MAX_MESSAGE_LENGTH - 3) \o <<"v","i","r","u","s">>
LogMessages == {M_PLAIN, M_KEYLOGGER, M_SPLIT, M_CRLF, M_STEAL_FIRST,
                M_PASSWORD_FIRST, M_LIMIT, M_OVER}

NoHandlers == [app_level |-> "WARNING", app_dir |-> "", security_handlers |-> <<>>]
NoFiles == [app |-> [d \in LogDirs |-> <<>>], security |-> [d \in LogDirs |-> <<>>]]
NoCall == [n |-> 0, logs |-> 0, op |-> "none", raised |-> FALSE, names |-> {},
           by |-> 0, level |-> "", message |-> <<>>]
LoggerIdle ==
    /\ logging_state = NoHandlers
    /\ instances = <<>>
    /\ log_files = NoFiles
    /\ log_call = NoCall

\* SecureLogger(**kwargs), lines 27-91: a keyword that is not a parameter
\* raises TypeError and no logger is made
Construct(call) ==
    /\ call \in ConstructorCalls
    /\ log_call.n - log_call.logs < MaxLoggers
    /\ log_call' = [NoCall EXCEPT !.n = log_call.n + 1, !.logs = log_call.logs,
                                  !.op = "construct",
                                  !.raised = ~(call.names \subseteq InitParams),
                                  !.names = call.names]
    /\ IF call.names \subseteq InitParams
       THEN /\ instances' = Append(instances, call)
            \* lines 54-58 and 71-91: the level and the handlers of
            \* "SecureLogger" are replaced; lines 62-69: "SecurityLogger"
            \* gets one more handler
            /\ logging_state' =
                  [app_level |-> call.log_level, app_dir |-> call.log_dir,
                   security_handlers |->
                       Append(logging_state.security_handlers, call.log_dir)]
       ELSE UNCHANGED <<instances, logging_state>>
    /\ UNCHANGED <<log_files, domain_cache, email_existence_cache, validationVars,
                   cacheVars>>

SecurityLine(message, matches) == [message |-> message, patterns |-> matches]
AppEntry(level, message, matches) ==
    [level |-> level, message |-> message, security_alert |-> matches # <<>>,
     matched_patterns |-> matches]

\* the security.log files after security_logger.warning (line 149): every
\* handler of "SecurityLogger" writes the line to the file of its directory
RECURSIVE emit_security(_, _, _)
emit_security(files, handlers, line) ==
    IF handlers = <<>> THEN files
    ELSE emit_security([files EXCEPT ![Head(handlers)] = Append(@, line)],
                       Tail(handlers), line)

\* SecureLogger.log, lines 132-166 (info, warning and debug call it, lines
\* 168-186); "SecureLogger" drops a record below its level
Log(k, level, message) ==
    /\ k \in 1..Len(instances)
    /\ level \in Levels
    /\ message \in LogMessages
    /\ log_call.logs < MaxLogCalls
    /\ LET sanitized == sanitize_log_message(message)
           matches == check_for_suspicious_content(
                          instances[k].enable_security_scan, sanitized)
           sec == IF matches # <<>>
                  THEN emit_security(log_files.security,
                                     logging_state.security_handlers,
                                     SecurityLine(sanitized, matches))
                  ELSE log_files.security
           app == IF LevelNo(level) >= LevelNo(logging_state.app_level)
                  THEN [log_files.app EXCEPT ![logging_state.app_dir] =
                           Append(@, AppEntry(level, sanitized, matches))]
                  ELSE log_files.app
       IN  log_files' = [app |-> app, security |-> sec]
    /\ log_call' = [NoCall EXCEPT !.n = log_call.n + 1, !.logs = log_call.logs + 1,
                                  !.op = "log", !.by = k, !.level = level,
                                  !.message = message]
    /\ UNCHANGED <<instances, logging_state, domain_cache, email_existence_cache,
                   validationVars, cacheVars>>


(***************************************************************************)
(* load_cache and save_cache, and the processes that call them: main_async *)
(* loads the file, process_file and interactive_mode load it again, the    *)
(* run stores into the caches, and the file is saved once or twice before  *)
(* the process ends; the next process starts with empty caches.            *)
(***************************************************************************)
\* the keys the runs store: a domain, an address, and a string with the
\* characters json.dump escapes (check_email_exists takes any str)
QUOTED_KEY == <<"a", QUOTE, BACKSLASH, NEWLINE, "b">>
CacheDomainKeys == {D_Y}
CacheEmailKeys == {A_X, QUOTED_KEY}
MaxCut == 12
MaxRuns == 1

AbsentFile == [state |-> "absent", text |-> <<>>]
UnreadableFile == [state |-> "unreadable", text |-> <<>>]
FileWith(text) == [state |-> "present", text |-> text]

\* load_cache, lines 32-43: the caches after the call, and whether the
\* except branch was taken
load_cache(file, dom, eml) ==
    LET unchanged(err) == [domains |-> dom, emails |-> eml, error |-> err]
        data == json_load(file.text)
    IN  IF file.state = "absent" THEN unchanged(FALSE)              \* line 36
        ELSE IF file.state = "unreadable" THEN unchanged(TRUE)      \* line 37 raises
        ELSE IF ~data.ok THEN unchanged(TRUE)                       \* line 38 raises
        ELSE IF data.v.kind # "obj" THEN unchanged(TRUE)            \* line 39: no .get
        ELSE LET d == get_or_empty(data.v, K_DOMAINS)
                 e == get_or_empty(data.v, K_EMAILS)
             IN  [domains |-> d, emails |-> e,
                  error |-> ~has_len(d) \/ ~has_len(e)]             \* line 41: len()

\* save_cache, lines 45-56: the file after the call.  open(CACHE_FILE, 'w')
\* may fail, which leaves the file as it was, and a write may fail after the
\* first `cut` characters.
SaveOutcomes == {"written", "open_fails", "write_fails"}
Cuts(outcome) == IF outcome = "write_fails" THEN 0..MaxCut ELSE {0}
save_cache(file, dom, eml, od, oe, outcome, cut) ==
    LET text == dump_cache_data(dom, eml, od, oe)
    IN  CASE outcome = "written" -> FileWith(text)
          [] outcome = "open_fails" -> file
          [] OTHER -> FileWith(SubSeq(text, 1, Min(cut, Len(text) - 1)))

NoOp == [op |-> "none", error |-> FALSE, domains |-> EmptyMap, emails |-> EmptyMap]
NoSave == [valid |-> FALSE, domains |-> EmptyMap, emails |-> EmptyMap]
CacheIdle ==
    /\ cache_file = AbsentFile
    /\ mpc = "run"
    /\ cache_op = NoOp
    /\ saved = NoSave
    /\ runs = 0

\* lines 540, 412, 460
LoadCache ==
    /\ mpc \in {"start", "entered"}
    /\ LET r == load_cache(cache_file, domain_cache, email_existence_cache)
       IN  /\ domain_cache' = r.domains
           /\ email_existence_cache' = r.emails
           /\ cache_op' = [op |-> "load", error |-> r.error,
                           domains |-> domain_cache, emails |-> email_existence_cache]
    /\ mpc' = IF mpc = "start" THEN "entered" ELSE "run"
    /\ UNCHANGED <<cache_file, saved, runs, validationVars, loggerVars>>

\* a validation stores an answer (lines 275, 291, 110, 212); on a cache that
\* is not a dict the statement raises and the process ends without a save
CacheStore(which, k, v) ==
    /\ mpc \in {"entered", "run"}
    /\ which \in {"domains", "emails"}
    /\ k \in (IF which = "domains" THEN CacheDomainKeys ELSE CacheEmailKeys)
    /\ v \in BOOLEAN
    /\ LET cache == IF which = "domains" THEN domain_cache ELSE email_existence_cache
       IN  IF IsOpaque(cache)
           THEN /\ mpc' = "crashed"
                /\ UNCHANGED <<domain_cache, email_existence_cache>>
           ELSE /\ mpc' = "run"
                /\ IF which = "domains"
                   THEN /\ domain_cache' = Put(domain_cache, k, v)
                        /\ UNCHANGED email_existence_cache
                   ELSE /\ email_existence_cache' = Put(email_existence_cache, k, v)
                        /\ UNCHANGED domain_cache
    /\ cache_op' = [op |-> "store", error |-> FALSE,
                    domains |-> domain_cache, emails |-> email_existence_cache]
    /\ UNCHANGED <<cache_file, saved, runs, validationVars, loggerVars>>

\* lines 451, 507, 556, 568
SaveCache(outcome, cut) ==
    /\ mpc \in {"entered", "run", "leaving"}
    /\ outcome \in SaveOutcomes
    /\ cut \in Cuts(outcome)
    /\ \E od \in Orders(IF IsOpaque(domain_cache) THEN EmptyMap ELSE domain_cache) :
       \E oe \in Orders(IF IsOpaque(email_existence_cache) THEN EmptyMap
                        ELSE email_existence_cache) :
          cache_file' = save_cache(cache_file, domain_cache, email_existence_cache,
                                   od, oe, outcome, cut)
    /\ saved' = CASE outcome = "written" ->
                       [valid |-> TRUE, domains |-> domain_cache,
                        emails |-> email_existence_cache]
                  [] outcome = "open_fails" -> saved
                  [] OTHER -> NoSave
    /\ cache_op' = [op |-> "save", error |-> outcome # "written",
                    domains |-> domain_cache, emails |-> email_existence_cache]
    /\ mpc' = IF mpc = "leaving" THEN "exit" ELSE "leaving"
    /\ UNCHANGED <<domain_cache, email_existence_cache, runs, validationVars, loggerVars>>

\* the next process: lines 18 and 21
Restart ==
    /\ mpc \in {"leaving", "exit", "crashed"}
    /\ runs < MaxRuns
    /\ runs' = runs + 1
    /\ mpc' = "start"
    /\ domain_cache' = EmptyMap
    /\ email_existence_cache' = EmptyMap
    /\ cache_op' = NoOp
    /\ UNCHANGED <<cache_file, saved, validationVars, loggerVars>>

\* the texts a first process may find in the file
T_EMPTY == <<>>
T_LIST == <<"[", "]">>
T_CUT == <<"{", QUOTE>> \o K_DOMAINS \o <<QUOTE, ":", " ", "{">>
T_DOMAINS_INT == <<"{", QUOTE>> \o K_DOMAINS \o <<QUOTE, ":", " ", "5", "}">>
T_EMAILS_NULL ==
    <<"{", QUOTE>> \o K_DOMAINS \o <<QUOTE, ":", " ", "{", QUOTE>> \o D_Y
        \o <<QUOTE, ":", " ">> \o W_TRUE \o <<"}", ",", " ", QUOTE>> \o K_EMAILS
        \o <<QUOTE, ":", " ">> \o W_NULL \o <<"}">>
T_EMAILS_ONLY ==
    <<"{", QUOTE>> \o K_EMAILS \o <<QUOTE, ":", "{", QUOTE>> \o A_X
        \o <<QUOTE, ":">> \o W_FALSE \o <<"}", "}", NEWLINE>>
InitialFiles ==
    {AbsentFile, UnreadableFile} \cup
    {FileWith(t) : t \in {T_EMPTY, T_LIST, T_CUT, T_DOMAINS_INT, T_EMAILS_NULL,
                          T_EMAILS_ONLY}}

CacheInit ==
    /\ cache_file \in InitialFiles
    /\ mpc = "start"
    /\ cache_op = NoOp
    /\ saved = NoSave
    /\ runs = 0
    /\ LoggerIdle
    /\ domain_cache = EmptyMap
    /\ email_existence_cache = EmptyMap
    /\ emails = <<>>
    /\ check_deliverability = FALSE
    /\ check_existence = FALSE
    /\ bpc = "caller"
    /\ results = EmptyMap
    /\ valid_emails = <<>>
    /\ domain_order = <<>>
    /\ emails_by_domain = EmptyMap
    /\ processed = 0
    /\ progress_reports = {}
    /\ await_i = 1
    /\ tasks = <<>>
    /\ semaphore = [value |-> DEFAULT_MAX_CONCURRENT_DOMAINS, waiters |-> <<>>]
    /\ dtask = EmptyMap
    /\ loop_blocked = <<>>
    /\ cache_writes = [domains |-> EmptyMap, emails |-> EmptyMap]
    /\ verdicts = {}

CacheNext ==
    \/ LoadCache
    \/ \E which \in {"domains", "emails"} :
       \E k \in CacheDomainKeys \cup CacheEmailKeys : \E v \in BOOLEAN :
          CacheStore(which, k, v)
    \/ \E outcome \in SaveOutcomes : \E cut \in Cuts(outcome) : SaveCache(outcome, cut)
    \/ Restart

CacheSpec == CacheInit /\ [][CacheNext]_vars

\* the calls of smtplib a call of SecureLogger.log makes: lines 132-166 make none
smtp_calls(k, level, message) == <<>>

LoggerInit ==
    /\ LoggerIdle
    /\ CacheIdle
    /\ domain_cache = EmptyMap
    /\ email_existence_cache = EmptyMap
    /\ emails = <<>>
    /\ check_deliverability = FALSE
    /\ check_existence = FALSE
    /\ bpc = "caller"
    /\ results = EmptyMap
    /\ valid_emails = <<>>
    /\ domain_order = <<>>
    /\ emails_by_domain = EmptyMap
    /\ processed = 0
    /\ progress_reports = {}
    /\ await_i = 1
    /\ tasks = <<>>
    /\ semaphore = [value |-> DEFAULT_MAX_CONCURRENT_DOMAINS, waiters |-> <<>>]
    /\ dtask = EmptyMap
    /\ loop_blocked = <<>>
    /\ cache_writes = [domains |-> EmptyMap, emails |-> EmptyMap]
    /\ verdicts = {}

LoggerNext ==
    \/ \E call \in ConstructorCalls : Construct(call)
    \/ \E k \in 1..MaxLoggers : \E level \in Levels : \E message \in LogMessages :
          Log(k, level, message)

LoggerSpec == LoggerInit /\ [][LoggerNext]_vars

(***************************************************************************)
(* The program: the caches are loaded (load_cache), then either one        *)
(* batch_validate runs (process_file) or a caller awaits single calls.     *)
(***************************************************************************)
NoWrites == [domains |-> EmptyMap, emails |-> EmptyMap]

Init ==
    /\ \/ /\ bpc = "start"
          /\ emails \in EmailLists
          /\ check_deliverability \in BOOLEAN
          /\ check_existence \in BOOLEAN
       \/ /\ bpc = "caller"
          /\ emails = <<>>
          /\ check_deliverability = FALSE
          /\ check_existence = FALSE
    /\ \E loaded \in LoadedCaches :
          /\ domain_cache = loaded[1]
          /\ email_existence_cache = loaded[2]
    /\ results = EmptyMap
    /\ valid_emails = <<>>
    /\ domain_order = <<>>
    /\ emails_by_domain = EmptyMap
    /\ processed = 0
    /\ progress_reports = {}
    /\ await_i = 1
    /\ tasks = <<>>
    /\ semaphore = [value |-> DEFAULT_MAX_CONCURRENT_DOMAINS, waiters |-> <<>>]
    /\ dtask = EmptyMap
    /\ loop_blocked = <<>>
    /\ cache_writes = NoWrites
    /\ verdicts = {}
    /\ CacheIdle
    /\ LoggerIdle

MaxTasks == IF MaxEmails >= MaxCalls THEN MaxEmails ELSE MaxCalls

Next ==
    \/ BatchPartition
    \/ \E i \in 1..MaxTasks : TaskStart(i)
    \/ \E i \in 1..MaxTasks : \E o \in DelivOutcomes(TRUE) : TaskResume(i, o)
    \/ BatchCollect
    \/ \E d \in DOMAIN dtask : DomainStart(d)
    \/ \E d \in DOMAIN dtask : DomainAdmit(d)
    \/ \E d \in DOMAIN dtask : \E k \in 1..DEFAULT_BATCH_SIZE :
          \E o \in ExistOutcomes : \E err \in ErrTexts : WorkerFinish(d, k, o, err)
    \/ \E d \in DOMAIN dtask : DomainBatchDone(d)
    \/ \E d \in DOMAIN dtask : DomainBatchFail(d)
    \/ \E d \in DOMAIN dtask : DomainShutdownDone(d)
    \/ ExistDone
    \/ \E e \in Addresses : \E cd \in BOOLEAN : \E ce \in BOOLEAN :
          Call("validate_email_async", e, cd, ce)
    \/ \E e \in Addresses : Call("check_email_exists", e, FALSE, FALSE)
    \/ \E i \in 1..MaxCalls : ExistsStart(i)
    \/ \E i \in 1..MaxCalls : \E o \in ExistOutcomes : \E err \in ErrTexts :
          ExistsResume(i, o, err)

Spec == Init /\ [][Next]_vars

(***************************************************************************)
(* Properties.                                                             *)
(***************************************************************************)
ValidateCalls == {i \in 1..Len(tasks) : tasks[i].fn = "validate_email_async"}
\* the calls whose deliverability probe has been handed to a worker and
\* whose coroutine has not been resumed
InFlight == {i \in ValidateCalls : tasks[i].pc = "probing"}
Probed(i) == tasks[i].probe # "none"
InBatch == bpc \in {"deliv", "exist", "done", "raised"}
\* the domain tasks inside `async with semaphore`
Gated == {d \in DOMAIN dtask : dtask[d].pc \in {"gated", "shutdown"}}
DomainFailed(d) == dtask[d].pc = "done" /\ dtask[d].exc # ""

\* C1: once domain_cache holds a value for a domain, no later step of the
\* run changes that value (first result wins).
C1_DomainCacheWriteOnce ==
    [][\A d \in DOMAIN domain_cache :
          /\ d \in DOMAIN domain_cache'
          /\ domain_cache'[d] = domain_cache[d]]_vars

\* C2: in a batch_validate run with deliverability checking, no two
\* deliverability probes are issued for the same domain.
C2_OneProbePerDomain ==
    (InBatch /\ check_deliverability) =>
        \A i, j \in ValidateCalls :
            (i < j /\ Probed(i) /\ Probed(j)) =>
                SplitIndex1(tasks[i].email) # SplitIndex1(tasks[j].email)

\* C3: during the deliverability phase the number of domains with a
\* deliverability probe in flight is at most DEFAULT_MAX_CONCURRENT_DOMAINS.
C3_DeliverabilityInFlightBound ==
    bpc = "deliv" =>
        Cardinality({SplitIndex1(tasks[i].email) : i \in InFlight})
            <= DEFAULT_MAX_CONCURRENT_DOMAINS

\* C4: at most DEFAULT_MAX_CONCURRENT_DOMAINS domain tasks are inside the
\* gated section of check_domain_emails, and the semaphore's value is the
\* number of free permits.
C4_GateBound ==
    /\ Cardinality(Gated) <= DEFAULT_MAX_CONCURRENT_DOMAINS
    /\ bpc = "exist" =>
          semaphore.value = DEFAULT_MAX_CONCURRENT_DOMAINS - Cardinality(Gated)

\* C4 witness: the gate is full and a further domain task waits for it
C4_GateFull ==
    /\ Cardinality(Gated) = DEFAULT_MAX_CONCURRENT_DOMAINS
    /\ \E d \in DOMAIN dtask : dtask[d].pc = "waiting"

\* C5: batch_validate never ends with an exception, whatever a
\* deliverability probe does.
C5_BatchNeverAborts == bpc # "raised"

\* C6: when check_domain_emails has returned, every address passed in has
\* one result and no work item was submitted twice; if a probe raised, the
\* addresses of the completed sub-batches keep their own outcome, every
\* other unchecked address has (False, the one message naming the domain),
\* and nothing was submitted after the failed sub-batch.
C6_DomainFailureContainment ==
    \A d \in DOMAIN dtask :
        LET t == dtask[d]
        IN  t.pc = "done" =>
              /\ DOMAIN t.results = Range(t.emails)
              /\ t.submitted <= Len(t.unchecked)
              /\ t.exc # "" =>
                    /\ t.submitted = t.i + Len(batch_at(t.unchecked, t.i))
                    /\ \A e \in Range(t.unchecked) :
                          IF e \in Range(SubSeq(t.unchecked, 1, t.i))
                          THEN t.results[e].msg.kind \in {"none", "not_exists"}
                          ELSE t.results[e] = ERes(FALSE, DomainErrorMsg(d, t.exc))

\* C6 witness: a domain failed in its second sub-batch: some addresses have
\* their own outcome, the others the domain's error
C6_DomainFailedMidway ==
    \E d \in DOMAIN dtask :
        /\ DomainFailed(d)
        /\ dtask[d].i > 0
        /\ \E e \in Range(dtask[d].unchecked) :
              dtask[d].results[e].msg.kind = "domain_error"

\* a step in which the failure of an existence probe is handled
C7_FailureHandled ==
    \/ \E d \in DOMAIN dtask :
          /\ dtask[d].pc \in {"gated", "shutdown"}
          /\ d \in DOMAIN dtask'
          /\ dtask'[d].pc = "done"
          /\ dtask'[d].exc # ""
    \/ \E i \in 1..Len(tasks) :
          /\ tasks[i].fn = "check_email_exists"
          /\ tasks[i].pc = "probing"
          /\ tasks'[i].pc = "done"
          /\ tasks'[i].probe = "raised"

\* C7: the step that handles a failed existence probe leaves
\* email_existence_cache unchanged, and every value written to the cache in
\* the run is an answer a probe returned for that address.
C7_FailuresNotCached ==
    /\ [][C7_FailureHandled => email_existence_cache' = email_existence_cache]_vars
    /\ [](\A a \in DOMAIN cache_writes.emails :
             \A v \in cache_writes.emails[a] : <<a, v>> \in verdicts)

\* C7 witness: a failure has been handled and the address has no cache entry
C7_FailedAndUncached ==
    \/ \E d \in DOMAIN dtask :
          /\ DomainFailed(d)
          /\ \E e \in Range(dtask[d].unchecked) :
                /\ dtask[d].results[e].msg.kind = "domain_error"
                /\ ~Has(email_existence_cache, e)
    \/ \E i \in 1..Len(tasks) :
          /\ tasks[i].fn = "check_email_exists"
          /\ tasks[i].pc = "done"
          /\ tasks[i].probe = "raised"
          /\ ~Has(email_existence_cache, tasks[i].email)

\* C8: after a call of validate_email_async with deliverability checking
\* has returned a verdict, a later call for the same address issues no
\* probe and returns the same validity.
C8_SecondCallFromCache ==
    bpc = "caller" =>
        \A i, j \in ValidateCalls :
            ( /\ i < j
              /\ tasks[i].email = tasks[j].email
              /\ tasks[i].cd /\ tasks[j].cd
              /\ tasks[i].pc = "done"
              /\ tasks[i].probe \in {"ok", "syntax", "undeliverable"} )
            => /\ ~Probed(j)
               /\ tasks[j].pc = "done" => tasks[j].ret.valid = tasks[i].ret.valid

\* C9: all the writes of one run to email_existence_cache[a] write the
\* same value.
C9_ExistenceCacheWriteOnce ==
    \A a \in DOMAIN cache_writes.emails : Cardinality(cache_writes.emails[a]) <= 1

\* C10: a call of validate_email_async with check_existence whose
\* deliverability check succeeded does not raise.
C10_ExistenceCallReturns ==
    \A i \in ValidateCalls :
        (tasks[i].ce /\ tasks[i].probe = "ok") => tasks[i].pc # "raised"

\* strings that fail the structural pattern: no '@', nothing before it, no
\* dot in the domain, a one-letter top-level domain, a character outside
\* the classes
AT_X == <<"@","x",".","i","o">>
A_AT_X == <<"a","@","x">>
A_X_I == <<"a","@","x",".","i">>
A_SP_X == <<"a"," ","@","x",".","i","o">>
Malformed == {NO_AT, AT_X, A_AT_X, A_X_I, A_SP_X, <<>>}

\* the calls a caller can make of validate_email_async for one address
CallsOf(e) ==
    {NewCall("validate_email_async", e, cd, ce) : cd \in BOOLEAN, ce \in BOOLEAN}

\* the call ends before its first await with the format error, for every
\* content of the caches
C11_AnswerIgnoresCaches ==
    \A e \in Malformed : \A t \in CallsOf(e) : \A loaded \in LoadedCaches :
        /\ ~EMAIL_REGEX_match(e)
        /\ validate_start(t, loaded[1]) = [t EXCEPT !.pc = "done", !.ret = FormatError]

\* C11: a string that fails the structural pattern gets the fixed format
\* error with no warning from validate_email_async and from batch_validate;
\* no probe is issued for it, nothing is written to a cache for it, and the
\* answer is the same whatever the caches hold.
C11_MalformedRejected ==
    /\ C11_AnswerIgnoresCaches
    /\ \A i \in ValidateCalls :
          (~EMAIL_REGEX_match(tasks[i].email) /\ tasks[i].pc # "created") =>
              /\ tasks[i].pc = "done"
              /\ tasks[i].ret = FormatError
              /\ tasks[i].probe = "none"
    /\ \A e \in Range(emails) :
          ~EMAIL_REGEX_match(e) =>
              /\ bpc # "start" => (Has(results, e) /\ results[e] = FormatError)
              /\ \A i \in 1..Len(tasks) : tasks[i].email # e
              /\ \A d \in DOMAIN dtask : e \notin Range(dtask[d].emails)
              /\ e \notin DOMAIN cache_writes.emails

\* C11 witness: a batch with existence checking has returned; it held a
\* malformed string, which has the format error, next to a probed address
C11_MalformedInFinishedBatch ==
    /\ bpc = "done"
    /\ check_existence
    /\ NO_AT \in Range(emails)
    /\ results[NO_AT] = FormatError
    /\ \E d \in DOMAIN dtask : dtask[d].submitted > 0

\* addresses of denylisted domains, in several local parts and letter cases
B_YOP == <<"b","@","y","o","p","m","a","i","l",".","c","o","m">>
A_TEMP == <<"x",".","y","@","T","E","M","P","-","M","A","I","L",".","O","R","G">>
DisposableSamples == {A_YOP, B_YOP, A_TEMP}
IsDisposable(e) ==
    EMAIL_REGEX_match(e) /\ SplitHasIndex1(e) /\ lower(SplitIndex1(e)) \in disposable_domains

\* caches that hold an entry for the domain and for the address
CachesNaming(e) ==
    LoadedCaches \cup
    {<<SplitIndex1(e) :> v, e :> w>> : v \in BOOLEAN, w \in BOOLEAN}

\* the call ends before its first await with the disposable-domain error,
\* for every content of the caches
C12_AnswerIgnoresCaches ==
    \A e \in DisposableSamples : \A t \in CallsOf(e) : \A c \in CachesNaming(e) :
        /\ IsDisposable(e)
        /\ validate_start(t, c[1]) =
              [t EXCEPT !.pc = "done", !.ret = DisposableError(SplitIndex1(e))]

\* C12: an address of a denylisted domain (letter case ignored) gets the
\* disposable-domain error whatever its local part and whatever the caches
\* hold; no probe is issued for it and no cache entry is written for it,
\* in validate_email_async and in a batch_validate run.
C12_DisposableRejected ==
    /\ C12_AnswerIgnoresCaches
    /\ \A i \in ValidateCalls :
          (tasks[i].pc # "created" /\ IsDisposable(tasks[i].email)) =>
              /\ tasks[i].pc = "done"
              /\ tasks[i].ret = DisposableError(SplitIndex1(tasks[i].email))
              /\ tasks[i].probe = "none"
    /\ \A e \in Range(emails) :
          IsDisposable(e) =>
              /\ bpc = "done" => results[e] = DisposableError(SplitIndex1(e))
              /\ \A d \in DOMAIN dtask : e \notin Range(dtask[d].emails)
              /\ e \notin DOMAIN cache_writes.emails
              /\ SplitIndex1(e) \notin DOMAIN cache_writes.domains

\* C12 witness: a batch with both checks has returned; it held an address of
\* a denylisted domain written in capitals, next to a probed address
C12_DisposableInFinishedBatch ==
    /\ bpc = "done"
    /\ check_deliverability
    /\ check_existence
    /\ A_YOP \in Range(emails)
    /\ results[A_YOP] = DisposableError(SplitIndex1(A_YOP))
    /\ \E d \in DOMAIN dtask : dtask[d].submitted > 0

\* call i is an address that passed the syntax filter and the denylist
ReachesCacheCheck(i) ==
    /\ i \in ValidateCalls
    /\ EMAIL_REGEX_match(tasks[i].email)
    /\ ~IsDisposable(tasks[i].email)

\* a step in which call i, made with deliverability checking, runs from its
\* start while domain_cache holds False for its domain
C13_StartsUnderNegative(i) ==
    /\ tasks[i].cd
    /\ tasks[i].pc = "created"
    /\ tasks'[i].pc # "created"
    /\ ReachesCacheCheck(i)
    /\ Has(domain_cache, SplitIndex1(tasks[i].email))
    /\ ~domain_cache[SplitIndex1(tasks[i].email)]

\* C13: a call with deliverability checking that finds False in
\* domain_cache for its domain ends at once with the cached
\* domain-cannot-receive-mail error, issues no probe and leaves both caches
\* unchanged; in a batch every address of a domain loaded as False has
\* that error as its result.
C13_CachedNegativeRejects ==
    /\ [][\A i \in 1..Len(tasks) :
            C13_StartsUnderNegative(i) =>
                /\ tasks'[i].pc = "done"
                /\ tasks'[i].ret = CachedDomainError(SplitIndex1(tasks[i].email))
                /\ tasks'[i].probe = "none"
                /\ domain_cache' = domain_cache
                /\ email_existence_cache' = email_existence_cache]_vars
    /\ [](\A i \in 1..Len(tasks) :
            ( /\ InBatch
              /\ check_deliverability
              /\ tasks[i].pc # "created"
              /\ domain_cache # EmptyMap
              /\ ReachesCacheCheck(i)
              /\ Has(domain_cache, SplitIndex1(tasks[i].email))
              /\ ~domain_cache[SplitIndex1(tasks[i].email)]
              /\ ~Has(cache_writes.domains, SplitIndex1(tasks[i].email)) )
            => /\ tasks[i].ret = CachedDomainError(SplitIndex1(tasks[i].email))
               /\ tasks[i].probe = "none"
               /\ bpc = "done" => results[tasks[i].email] = tasks[i].ret)

\* C13 witness: a batch with deliverability checking has returned in which
\* two addresses of one domain were rejected from the cached verdict
C13_TwoRejectedFromCache ==
    /\ bpc = "done"
    /\ check_deliverability
    /\ \E i, j \in ValidateCalls :
          /\ i < j
          /\ tasks[i].ret = CachedDomainError(D_Y)
          /\ tasks[j].ret = CachedDomainError(D_Y)
          /\ results[tasks[j].email] = CachedDomainError(D_Y)
          /\ domain_cache[D_Y] = FALSE

\* a step in which the check_domain_emails task of domain d runs from its start
C14_DomainStarts(d) ==
    /\ dtask[d].pc = "created"
    /\ d \in DOMAIN dtask'
    /\ dtask'[d].pc # "created"

\* a step in which call i of check_email_exists runs from its start with
\* its address in the cache
C14_ExistsStartsCached(i) ==
    /\ tasks[i].fn = "check_email_exists"
    /\ tasks[i].pc = "created"
    /\ tasks'[i].pc # "created"
    /\ Has(email_existence_cache, tasks[i].email)

\* C14: when check_domain_emails starts, every address that is in
\* email_existence_cache gets the cached value as its result and is not
\* among the addresses to probe, and it keeps that result; a domain whose
\* addresses are all cached returns in that step without taking the
\* semaphore, submitting a probe or changing the cache.  check_email_exists
\* answers a cached address from the cache without a probe.
C14_CachedResolved ==
    /\ [][\A d \in DOMAIN dtask :
            C14_DomainStarts(d) =>
                /\ \A e \in Range(dtask[d].emails) :
                      Has(email_existence_cache, e) =>
                          /\ ~InSeq(e, dtask'[d].unchecked)
                          /\ Has(dtask'[d].results, e)
                          /\ dtask'[d].results[e].exists = email_existence_cache[e]
                /\ (\A e \in Range(dtask[d].emails) : Has(email_existence_cache, e)) =>
                      /\ dtask'[d].pc = "done"
                      /\ dtask'[d].submitted = 0
                      /\ semaphore' = semaphore
                      /\ email_existence_cache' = email_existence_cache]_vars
    /\ [][\A i \in 1..Len(tasks) :
            C14_ExistsStartsCached(i) =>
                /\ tasks'[i].pc = "done"
                /\ tasks'[i].probe = "none"
                /\ tasks'[i].ret.valid = email_existence_cache[tasks[i].email]
                /\ email_existence_cache' = email_existence_cache]_vars
    /\ [](\A d \in DOMAIN dtask :
            dtask[d].pc # "created" =>
                \A e \in Range(dtask[d].emails) \ Range(dtask[d].unchecked) :
                    /\ Has(dtask[d].results, e)
                    /\ Has(email_existence_cache, e)
                    /\ dtask[d].results[e].exists = email_existence_cache[e])

\* C14 witness: one domain's addresses were all cached and its task has
\* returned with no probe submitted, while another domain was probed
C14_DomainAnsweredFromCache ==
    \E d, d2 \in DOMAIN dtask :
        /\ dtask[d].pc = "done"
        /\ dtask[d].emails # <<>>
        /\ dtask[d].unchecked = <<>>
        /\ dtask[d].submitted = 0
        /\ DOMAIN dtask[d].results = Range(dtask[d].emails)
        /\ dtask[d2].submitted > 0

\* an entry of the returned mapping: a boolean, a string (the normal form
\* of the address or a message) and a warning that may be None
WellFormedEntry(r) ==
    /\ r.valid \in BOOLEAN
    /\ r.result.kind \in {"normalized", "format", "missing_at", "disposable",
                          "cached_undeliverable", "not_valid", "not_exists",
                          "not_exists_cached", "domain_error"}
    /\ r.warning \in {"none", "UWAGA"}
    /\ r.valid <=> r.result.kind = "normalized"

\* C15: when batch_validate has returned, the keys of the mapping are
\* exactly the submitted addresses and every entry is well formed, for
\* every setting of check_deliverability and check_existence.
C15_ResultCoversInput ==
    (bpc = "done") =>
        /\ DOMAIN results = Range(emails)
        /\ \A e \in DOMAIN results : WellFormedEntry(results[e])

\* C15 witness: a batch with both checks has returned that held a malformed
\* string, a disposable address, an address answered from the existence
\* cache or probed, and has a valid entry
C15_MixedBatchReturned ==
    /\ bpc = "done"
    /\ check_deliverability
    /\ check_existence
    /\ Cardinality(Range(emails)) = MaxEmails
    /\ NO_AT \in Range(emails)
    /\ A_YOP \in Range(emails)
    /\ \E d \in DOMAIN dtask : dtask[d].submitted > 0
    /\ \E e \in DOMAIN results : results[e].valid

\* C16: in a batch_validate run, an entry of results that has been written
\* is not replaced by a different value by a later step of the run.
C16_ResultWrittenOnce ==
    [][\A e \in DOMAIN results :
          /\ e \in DOMAIN results'
          /\ results'[e] = results[e]]_vars

\* C17: a result of validate_email_async or of batch_validate has a warning
\* only if it is valid, deliverability was checked and existence was not.
C17_WarningOnlyForDeliverabilityAlone ==
    /\ \A i \in ValidateCalls :
          (tasks[i].pc = "done" /\ tasks[i].ret.warning # "none") =>
              /\ tasks[i].ret.valid
              /\ tasks[i].cd
              /\ ~tasks[i].ce
    /\ bpc = "done" =>
          \A e \in DOMAIN results :
              results[e].warning # "none" =>
                  /\ results[e].valid
                  /\ check_deliverability
                  /\ ~check_existence

\* the existence probes that are executing on a worker thread, over all domains
ExistenceProbesRunning ==
    UNION {{<<d, k>> : k \in Running(dtask[d].probes)} : d \in DOMAIN dtask}

\* C18: the number of existence probes executing at the same time, over all
\* domains, is at most DEFAULT_MAX_WORKERS.
C18_WorkerBoundAcrossDomains ==
    Cardinality(ExistenceProbesRunning) <= DEFAULT_MAX_WORKERS

\* C19: the event-loop thread is never inside a call that waits for worker
\* threads to finish.
C19_CoordinatorNeverBlocks == loop_blocked = <<>>

\* range(0, len(unchecked_emails), DEFAULT_BATCH_SIZE), line 187
batch_starts(unchecked) ==
    {i \in 0..Len(unchecked) : i < Len(unchecked) /\ i % DEFAULT_BATCH_SIZE = 0}

\* the sub-batches that start before position i, one after the other
RECURSIVE batches_before(_, _)
batches_before(unchecked, i) ==
    IF i <= 0 THEN <<>>
    ELSE batches_before(unchecked, i - DEFAULT_BATCH_SIZE)
             \o batch_at(unchecked, i - DEFAULT_BATCH_SIZE)

\* C20: the sub-batches of a domain are consecutive slices of at most
\* DEFAULT_BATCH_SIZE unchecked addresses; the slices submitted so far are
\* the list of unchecked addresses up to the end of the current one, and
\* all of it, each position once, when the domain ends without a failure;
\* the probes of the domain that execute at the same time are at most
\* min(DEFAULT_BATCH_SIZE, DEFAULT_MAX_WORKERS).
C20_SubBatches ==
    \A d \in DOMAIN dtask :
        LET t == dtask[d]
            u == t.unchecked
        IN  /\ t.i \in batch_starts(u) \cup {0}
            /\ \A i \in batch_starts(u) :
                  /\ Len(batch_at(u, i)) \in 1..DEFAULT_BATCH_SIZE
                  /\ batches_before(u, i) = SubSeq(u, 1, i)
                  /\ batches_before(u, i + DEFAULT_BATCH_SIZE) =
                        SubSeq(u, 1, i + Len(batch_at(u, i)))
            /\ t.pc \in {"gated", "shutdown"} =>
                  /\ Len(t.probes) = Len(batch_at(u, t.i))
                  /\ t.submitted = t.i + Len(t.probes)
            /\ (t.pc = "done" /\ t.exc = "") => t.submitted = Len(u)
            /\ Cardinality(Running(t.probes)) <=
                  Min(DEFAULT_BATCH_SIZE, DEFAULT_MAX_WORKERS)

\* C20 witness: a domain with more unchecked addresses than one sub-batch
\* holds has been probed to the end, in two sub-batches
C20_TwoSubBatchesDone ==
    \E d \in DOMAIN dtask :
        /\ dtask[d].pc = "done"
        /\ dtask[d].exc = ""
        /\ Len(dtask[d].unchecked) > DEFAULT_BATCH_SIZE
        /\ dtask[d].i = DEFAULT_BATCH_SIZE
        /\ dtask[d].submitted = Len(dtask[d].unchecked)

\* the list holds no address twice
PairwiseDistinct(es) == \A i, j \in 1..Len(es) : i # j => es[i] # es[j]

\* the deliverability probes and the existence probes issued for address e
DeliverabilityProbesOf(e) == {i \in ValidateCalls : tasks[i].email = e /\ Probed(i)}
ExistenceProbesOf(e) ==
    UNION {{<<d, k>> : k \in {n \in 1..Len(dtask[d].sent) : dtask[d].sent[n] = e}} :
              d \in DOMAIN dtask}

\* C21: in a batch_validate run over pairwise distinct addresses, every
\* address is the subject of at most one deliverability probe and at most
\* one existence probe, whatever the probes return or raise.
C21_NoProbeRetried ==
    (InBatch /\ PairwiseDistinct(emails)) =>
        \A e \in Range(emails) :
            /\ Cardinality(DeliverabilityProbesOf(e)) <= 1
            /\ Cardinality(ExistenceProbesOf(e)) <= 1

\* C21 witness: a run over distinct addresses of one domain has ended in
\* which a probe of the second sub-batch raised; every address was probed
\* once and none again
C21_FailedProbeNotRetried ==
    /\ bpc = "done"
    /\ PairwiseDistinct(emails)
    /\ \E d \in DOMAIN dtask :
          /\ DomainFailed(d)
          /\ dtask[d].i > 0
          /\ Len(dtask[d].sent) = MaxEmails
          /\ \A e \in Range(dtask[d].sent) : Cardinality(ExistenceProbesOf(e)) = 1

(***************************************************************************)
(* The progress counter of batch_validate, on batches long enough for the  *)
(* second progress line: the same actions, started on longer lists.        *)
(***************************************************************************)
MaxMalformed == 2
MaxProgress == 11

Repeat(x, n) == [i \in 1..n |-> x]
InsertAt(s, k, x) == SubSeq(s, 1, k) \o <<x>> \o SubSeq(s, k + 1, Len(s))

\* malformed strings, then addresses of a disposable domain (their tasks end
\* without a probe), and at most one address that is probed, at any place
ProgressLists ==
    LET base == {Repeat(NO_AT, a) \o Repeat(A_YOP, m) :
                    a \in 0..MaxMalformed, m \in 0..MaxProgress}
    IN  base \cup UNION {{InsertAt(s, k, A_X) : k \in 0..Len(s)} : s \in base}

ProgressInit ==
    /\ bpc = "start"
    /\ emails \in ProgressLists
    /\ check_deliverability \in BOOLEAN
    /\ check_existence = FALSE
    /\ \E loaded \in LoadedCaches :
          /\ domain_cache = loaded[1]
          /\ email_existence_cache = loaded[2]
    /\ results = EmptyMap
    /\ valid_emails = <<>>
    /\ domain_order = <<>>
    /\ emails_by_domain = EmptyMap
    /\ processed = 0
    /\ progress_reports = {}
    /\ await_i = 1
    /\ tasks = <<>>
    /\ semaphore = [value |-> DEFAULT_MAX_CONCURRENT_DOMAINS, waiters |-> <<>>]
    /\ dtask = EmptyMap
    /\ loop_blocked = <<>>
    /\ cache_writes = NoWrites
    /\ verdicts = {}
    /\ CacheIdle
    /\ LoggerIdle

ProgressNext ==
    \/ BatchPartition
    \/ \E i \in 1..(MaxProgress + 1) : TaskStart(i)
    \/ \E i \in 1..(MaxProgress + 1) : \E o \in DelivOutcomes(TRUE) : TaskResume(i, o)
    \/ BatchCollect

ProgressSpec == ProgressInit /\ [][ProgressNext]_vars

\* the deliverability phase has ended: every task was awaited (line 366 on)
DeliverabilityEnded ==
    bpc \in {"exist", "done"} /\ await_i = Len(tasks) + 1 /\ valid_emails # <<>>

\* C24: the processed count never decreases, never exceeds the number of
\* submitted addresses and equals it when the deliverability phase ends; in
\* that phase a progress line is printed at the task indices that are
\* multiples of 10 and at no other index (so not once per address).
C24_ProgressCounter ==
    /\ [][processed' >= processed]_vars
    /\ [](processed <= Len(emails))
    /\ [](DeliverabilityEnded => processed = Len(emails))
    /\ [](\A i \in progress_reports : i \in 0..(Len(tasks) - 1) /\ i % 10 = 0)
    /\ [](DeliverabilityEnded =>
            \A i \in 0..(Len(tasks) - 1) : i % 10 = 0 => i \in progress_reports)

\* a batch of eleven tasks, one of them probed, with a malformed string
\* before them, has ended its deliverability phase: progress was printed at
\* the indices 0 and 10 only
C24_TwoProgressLines ==
    /\ DeliverabilityEnded
    /\ Len(tasks) = 11 /\ processed = Len(emails) /\ processed > Len(tasks)
    /\ \E i \in 1..Len(tasks) : Probed(i)
    /\ progress_reports = {0, 10}

\* the sub-batches of domain task d that were recorded before the one in
\* hand, the one in hand, and the work items of the one in hand that returned
EarlierBatches(d) == SubSeq(dtask[d].unchecked, 1, dtask[d].i)
BatchInHand(d) == batch_at(dtask[d].unchecked, dtask[d].i)
\* a probe of the sub-batch in hand has raised (dtask[d].exc holds its text)
BatchRaised(d) == dtask[d].unchecked # <<>> /\ dtask[d].exc # ""

\* C28: once a probe of a sub-batch has raised, no address of that sub-batch
\* gets an entry of email_existence_cache or an answer of its own (after the
\* except branch it has the domain's error), no later sub-batch is handed to
\* the pool, and the addresses of the sub-batches recorded before keep their
\* cache entry and their own answer.
C28_SubBatchAllOrNothing ==
    \A d \in DOMAIN dtask :
        BatchRaised(d) =>
            /\ \A e \in Range(BatchInHand(d)) \ Range(EarlierBatches(d)) :
                  /\ ~Has(email_existence_cache, e)
                  /\ Has(dtask[d].results, e) =>
                        /\ DomainFailed(d)
                        /\ dtask[d].results[e] =
                              ERes(FALSE, DomainErrorMsg(d, dtask[d].exc))
            /\ dtask[d].sent = EarlierBatches(d) \o BatchInHand(d)
            /\ \A e \in Range(EarlierBatches(d)) :
                  /\ Has(email_existence_cache, e)
                  /\ Has(dtask[d].results, e)
                  /\ dtask[d].results[e] =
                        ERes(email_existence_cache[e],
                             IF email_existence_cache[e] THEN NoMsg ELSE NotExistsMsg)
            /\ DomainFailed(d) =>
                  \A e \in Range(dtask[d].unchecked) : Has(dtask[d].results, e)

\* the first sub-batch of a domain has failed after one of its two probes
\* had found its address: that address has the domain's error and no cache
\* entry, and the domain's third address was never handed to the pool
C28_ReturnedProbeDiscarded ==
    \E d \in DOMAIN dtask :
        /\ DomainFailed(d) /\ dtask[d].i = 0
        /\ Len(dtask[d].unchecked) = 3 /\ Len(dtask[d].sent) = 2
        /\ \E e \in Range(BatchInHand(d)) :
              /\ <<e, TRUE>> \in verdicts
              /\ ~Has(email_existence_cache, e)
              /\ dtask[d].results[e] = ERes(FALSE, DomainErrorMsg(d, dtask[d].exc))

\* C29: the sub-batches of one domain are probed strictly one after another:
\* a step hands further addresses of a domain to the pool only when every
\* work item handed over before has ended, and after it every address
\* handed over before has its cache entry and its answer; at any time the
\* work items that have not ended belong to the last sub-batch handed over.
C29_SubBatchesSequential ==
    /\ [][\A d \in DOMAIN dtask :
            (d \in DOMAIN dtask' /\ Len(dtask'[d].sent) > Len(dtask[d].sent)) =>
                /\ \A k \in 1..Len(dtask[d].probes) :
                      dtask[d].probes[k] \in ExistOutcomes
                /\ \A e \in Range(dtask[d].sent) :
                      /\ Has(email_existence_cache', e)
                      /\ Has(dtask'[d].results, e)
                /\ dtask'[d].sent = dtask[d].sent \o BatchInHand(d)']_vars
    /\ [](\A d \in DOMAIN dtask :
            /\ Len(dtask[d].probes) <= Len(BatchInHand(d))
            /\ \A k \in 1..Len(dtask[d].probes) :
                  dtask[d].probes[k] \in {"queued", "running"} =>
                      /\ dtask[d].sent = EarlierBatches(d) \o BatchInHand(d)
                      /\ \A e \in Range(EarlierBatches(d)) :
                            Has(email_existence_cache, e) /\ Has(dtask[d].results, e))

\* the probe of a domain's second sub-batch is running; the two addresses of
\* its first sub-batch are in the cache
C29_SecondSubBatchRunning ==
    \E d \in DOMAIN dtask :
        /\ dtask[d].pc = "gated" /\ dtask[d].i = DEFAULT_BATCH_SIZE
        /\ dtask[d].probes = <<"running">>
        /\ Len(dtask[d].sent) = 3
        /\ \A e \in Range(EarlierBatches(d)) : Has(email_existence_cache, e)

\* an existence probe of the batch has been handed to a pool
ExistenceProbeStarted == \E d \in DOMAIN dtask : dtask[d].sent # <<>>

\* C30: in a batch_validate run no existence probe is started before every
\* deliverability task has ended and its result is recorded, and the
\* existence phase (its domain tasks and probes) runs only when
\* check_existence is true.
C30_PhaseOrder ==
    InBatch =>
        /\ ExistenceProbeStarted =>
              /\ await_i = Len(tasks) + 1
              /\ \A i \in 1..Len(tasks) :
                    /\ tasks[i].pc = "done"
                    /\ Has(results, tasks[i].email)
              /\ processed = Len(emails)
        /\ (dtask # EmptyMap \/ bpc = "exist") => check_existence

\* an existence probe is running after three deliverability tasks, two of
\* them with a probe of their own, have ended and are recorded
C30_ExistenceAfterDeliverability ==
    /\ bpc = "exist" /\ check_existence /\ check_deliverability
    /\ Len(tasks) = 3 /\ Cardinality({i \in 1..Len(tasks) : Probed(i)}) >= 2
    /\ \E d \in DOMAIN dtask : \E k \in 1..Len(dtask[d].probes) :
          dtask[d].probes[k] = "running"

\* C22: a load_cache that follows a save_cache whose write did not fail (in
\* the next process, which starts with empty caches) leaves domain_cache and
\* email_existence_cache equal to what they were when the file was saved.
C22_CacheRoundTrip ==
    (cache_op.op = "load" /\ saved.valid) =>
        /\ domain_cache = saved.domains
        /\ email_existence_cache = saved.emails

\* the second process has loaded a file saved by the first: a domain, an
\* address and a key with a quote, a backslash and a newline are back, with
\* both truth values among them
C22_ReloadedInNextProcess ==
    /\ cache_op.op = "load" /\ saved.valid /\ runs = 1
    /\ Has(domain_cache, D_Y)
    /\ Has(email_existence_cache, A_X) /\ Has(email_existence_cache, QUOTED_KEY)
    /\ email_existence_cache[A_X] # email_existence_cache[QUOTED_KEY]
    /\ email_existence_cache = saved.emails

\* C23: a load_cache that ends in its except branch, or finds no file,
\* leaves both caches as they were before the call (neither is changed),
\* and a save_cache, whether its write fails or not, leaves both caches
\* unchanged.
C23_FailedLoadLeavesCaches ==
    /\ (cache_op.op = "load" /\ (cache_op.error \/ cache_file.state = "absent")) =>
          /\ domain_cache = cache_op.domains
          /\ email_existence_cache = cache_op.emails
    /\ cache_op.op = "save" =>
          /\ domain_cache = cache_op.domains
          /\ email_existence_cache = cache_op.emails

\* the step is a call of SecureLogger.log
LogStep == log_call'.op = "log" /\ log_call'.n = log_call.n + 1
\* the entries a step has added to a log file
Added(old, new) == {new[n] : n \in (Len(old) + 1)..Len(new)}
AddedCount(old, new) == Len(new) - Len(old)

\* what the claim asks of a written message `msg` for a logged message `raw`
SanitizedAs(raw, msg) ==
    /\ \A i \in 1..Len(msg) : msg[i] \notin {NEWLINE, "\r"}
    /\ IF Len(raw) > MAX_MESSAGE_LENGTH
       THEN /\ Len(msg) = MAX_MESSAGE_LENGTH + Len(TRUNCATION_MARKER)
            /\ SubSeq(msg, MAX_MESSAGE_LENGTH + 1, Len(msg)) = TRUNCATION_MARKER
       ELSE Len(msg) = Len(raw)
    /\ \A i \in 1..Len(raw) :
          i <= MAX_MESSAGE_LENGTH =>
              msg[i] = (IF raw[i] \in {NEWLINE, "\r"} THEN " " ELSE raw[i])

\* C25: every message SecureLogger.log writes, to an application log or to
\* a security log, is the logged message with each newline and carriage
\* return replaced by a space, cut to its first MAX_MESSAGE_LENGTH
\* characters followed by the truncation marker when it is longer, and
\* otherwise unchanged.
C25_MessagesSanitized ==
    [][LogStep =>
          \A d \in LogDirs :
              /\ \A e \in Added(log_files.app[d], log_files'.app[d]) :
                    SanitizedAs(log_call'.message, e.message)
              /\ \A e \in Added(log_files.security[d], log_files'.security[d]) :
                    SanitizedAs(log_call'.message, e.message)]_vars

\* the last call logged a message longer than the limit whose suspicious
\* word crosses the limit: the application log has it cut, with the marker
\* and without an alert; an earlier entry has a message whose newline and
\* carriage return became spaces
C25_TruncatedAndReplaced ==
    /\ log_call.op = "log" /\ log_call.message = M_OVER
    /\ \E d \in LogDirs :
          /\ Len(log_files.app[d]) = 2
          /\ log_files.app[d][1].message = <<"k","e","y"," ","l","o","g"," ">>
          /\ log_files.app[d][2].message =
                SubSeq(M_OVER, 1, MAX_MESSAGE_LENGTH) \o TRUNCATION_MARKER
          /\ ~log_files.app[d][2].security_alert

\* C26: a log call of a logger with scanning enabled whose sanitized
\* message matches a pattern adds exactly one warning to the security logs,
\* and its application-log entry carries security_alert and the matched
\* patterns; a call whose message matches none adds nothing to the security
\* logs; in both cases a record the application logger's level lets
\* through is written, once, to the application log.
C26_OneSecurityWarning ==
    [][(LogStep /\ instances[log_call'.by].enable_security_scan) =>
          LET matches == check_for_suspicious_content(
                             TRUE, sanitize_log_message(log_call'.message))
              sec == AddedCount(log_files.security["logs"], log_files'.security["logs"])
                     + AddedCount(log_files.security["test_logs"],
                                  log_files'.security["test_logs"])
              app == UNION {Added(log_files.app[d], log_files'.app[d]) : d \in LogDirs}
              passes == LevelNo(log_call'.level) >= LevelNo(logging_state.app_level)
          IN  /\ sec = (IF matches # <<>> THEN 1 ELSE 0)
              /\ passes =>
                    /\ Cardinality(app) = 1
                    /\ \A e \in app :
                          /\ e.security_alert = (matches # <<>>)
                          /\ e.matched_patterns = matches]_vars

\* C27: a SecureLogger constructed with enable_email_alerts and email_config
\* exists after the call, and a suspicious message it logs at WARNING
\* level opens one SMTP session: connect, starttls, login, send_message, quit.
C27_EmailAlertSent ==
    /\ (log_call.op = "construct"
          /\ {"enable_email_alerts", "email_config"} \subseteq log_call.names) =>
          ~log_call.raised
    /\ (log_call.op = "log" /\ log_call.level = "WARNING"
          /\ "enable_email_alerts" \in instances[log_call.by].names
          /\ check_for_suspicious_content(
                 TRUE, sanitize_log_message(log_call.message)) # <<>>) =>
          smtp_calls(log_call.by, log_call.level, log_call.message) =
              <<"SMTP", "starttls", "login", "send_message", "quit">>

\* the result of address e when the deliverability phase has ended: the
\* return value of the last task for e (line 356 assigns in task order)
DeliverabilityResult(e) ==
    LET last == CHOOSE i \in 1..Len(tasks) :
                    /\ tasks[i].email = e
                    /\ \A j \in 1..Len(tasks) : tasks[j].email = e => j <= i
    IN  tasks[last].ret
HasTask(e) == \E i \in 1..Len(tasks) : tasks[i].email = e

\* C31: in a batch_validate run every address passed to
\* check_email_exists_batch, and so every address an existence probe is
\* issued for, has a valid result after the deliverability phase (it is not
\* malformed, disposable, rejected from the domain cache or failed by the
\* probe), and no step of the existence phase turns an invalid result into
\* a valid one.
C31_ExistenceOnlyForValid ==
    /\ [](InBatch =>
            \A d \in DOMAIN dtask :
                \A e \in Range(dtask[d].emails) \cup Range(dtask[d].sent) :
                    /\ HasTask(e)
                    /\ DeliverabilityResult(e).valid
                    /\ quick_validate(e)
                    /\ lower(SplitIndex1(e)) \notin disposable_domains)
    /\ [][(bpc = "exist") =>
            \A e \in DOMAIN results :
                ~results[e].valid => (e \in DOMAIN results' /\ ~results'[e].valid)]_vars

\* a batch with existence checking has ended: one address was probed for
\* existence, and two others were kept out of the existence phase, one
\* disposable and one failed by its deliverability probe
C31_InvalidKeptOut ==
    /\ bpc = "done" /\ check_existence /\ Len(tasks) = 3
    /\ \E d \in DOMAIN dtask : dtask[d].sent # <<>>
    /\ \E i \in 1..Len(tasks) :
          /\ tasks[i].ret.result.kind = "disposable"
          /\ \A d \in DOMAIN dtask : ~InSeq(tasks[i].email, dtask[d].emails)
    /\ \E i \in 1..Len(tasks) :
          /\ tasks[i].ret.result.kind = "not_valid"
          /\ \A d \in DOMAIN dtask : ~InSeq(tasks[i].email, dtask[d].emails)

\* a call of validate_email_async is resumed in this step
Resumed(i) ==
    /\ i \in ValidateCalls
    /\ tasks[i].pc = "probing"
    /\ tasks'[i].pc # "probing"

\* C32: with check_deliverability disabled validate_email_async and
\* batch_validate neither read nor write domain_cache: no call made without
\* the deliverability check is rejected from the cache, a call that was
\* started goes on to its probe even if the cache holds a negative verdict
\* for its domain, the step that resumes such a call leaves domain_cache as
\* it was whatever the probe returned, and no step of a batch run without
\* the deliverability check changes domain_cache.
C32_DisabledLeavesDomainCache ==
    /\ [](\A i \in ValidateCalls :
            ~tasks[i].cd =>
                /\ tasks[i].ret.result.kind # "cached_undeliverable"
                /\ (/\ tasks[i].pc # "created"
                    /\ quick_validate(tasks[i].email)
                    /\ lower(SplitIndex1(tasks[i].email)) \notin disposable_domains)
                   => tasks[i].probe # "none")
    /\ [][\A i \in ValidateCalls :
            (Resumed(i) /\ ~tasks[i].cd) => domain_cache' = domain_cache]_vars
    /\ [][(bpc # "caller" /\ ~check_deliverability)
            => domain_cache' = domain_cache]_vars

\* a batch without the deliverability check has ended: the cache holds a
\* negative verdict for y.io, an address of y.io was probed and is valid,
\* another probe failed, and the cache is what it was
C32_CachedVerdictIgnored ==
    /\ bpc = "done" /\ ~check_deliverability
    /\ domain_cache = (D_Y :> FALSE)
    /\ \E i \in ValidateCalls :
          /\ tasks[i].email = A_Y
          /\ tasks[i].probe = "ok"
          /\ tasks[i].ret.valid
    /\ \E i \in ValidateCalls : tasks[i].probe = "syntax"

\* C35: a false entry is written to domain_cache only when the
\* deliverability check found that the domain cannot receive mail: in a
\* step that resumes a call and stores a negative verdict for its domain,
\* the call's probe ended with the domain undeliverable, not with a failure
\* that concerns the one address only.
C35_NegativeOnlyWhenUndeliverable ==
    [][\A i \in ValidateCalls :
          LET domain == SplitIndex1(tasks[i].email)
          IN  (/\ Resumed(i)
               /\ ~Has(domain_cache, domain)
               /\ Has(domain_cache', domain)
               /\ ~domain_cache'[domain])
              => tasks'[i].probe = "undeliverable"]_vars

\* a worker thread of an existence pool ends its probe in this step
WorkerStep ==
    \E d \in DOMAIN dtask : \E k \in 1..Len(dtask[d].probes) :
        /\ dtask[d].probes[k] = "running"
        /\ k <= Len(dtask'[d].probes)
        /\ dtask'[d].probes[k] \in ExistOutcomes
\* a coroutine of the event-loop thread runs from one suspension point to
\* the next in this step: a call is resumed, or a domain task moves on
CoordinatorStep ==
    \/ \E i \in 1..Len(tasks) : tasks[i].pc = "probing" /\ tasks'[i].pc # "probing"
    \/ \E d \in DOMAIN dtask :
          dtask[d].pc = "gated" /\ dtask'[d].results # dtask[d].results
KeysChanged(old, new) ==
    {k \in DOMAIN old \cup DOMAIN new : ~Has(old, k) \/ ~Has(new, k) \/ old[k] # new[k]}

\* C34: worker threads never access the caches: the step in which a worker
\* ends its probe leaves domain_cache and email_existence_cache as they
\* were; every step that changes a cache is a step of a coroutine on the
\* event-loop thread while that thread is not blocked, it changes one cache
\* only, and it writes only keys of the coroutine that runs (the domain of
\* the resumed call, the address of the resumed call, or addresses of the
\* sub-batch the domain task has just gathered), so a key can only change
\* between a coroutine's lookup before its await and its write after it.
C34_CachesOnCoordinatorOnly ==
    /\ [][WorkerStep =>
            /\ domain_cache' = domain_cache
            /\ email_existence_cache' = email_existence_cache
            /\ cache_writes' = cache_writes]_vars
    /\ [][(domain_cache' # domain_cache \/ email_existence_cache' # email_existence_cache)
            => /\ CoordinatorStep /\ ~WorkerStep /\ Unblocked
               /\ (domain_cache' = domain_cache
                    \/ email_existence_cache' = email_existence_cache)]_vars
    /\ [][\A key \in KeysChanged(domain_cache, domain_cache') :
            \E i \in ValidateCalls :
                Resumed(i) /\ SplitIndex1(tasks[i].email) = key]_vars
    /\ [][\A key \in KeysChanged(email_existence_cache, email_existence_cache') :
            \/ \E i \in 1..Len(tasks) :
                  /\ tasks[i].fn = "check_email_exists"
                  /\ tasks[i].pc = "probing" /\ tasks'[i].pc = "done"
                  /\ tasks[i].email = key
            \/ \E d \in DOMAIN dtask :
                  /\ dtask[d].pc = "gated"
                  /\ all_returned(dtask[d].probes)
                  /\ InSeq(key, batch_at(dtask[d].unchecked, dtask[d].i))]_vars

\* a worker has ended its probe with an answer while its domain task is
\* still suspended in gather: the answer is not in the cache, which already
\* holds the answer of another domain task
C34_AnswerNotYetCached ==
    /\ bpc = "exist"
    /\ \E d \in DOMAIN dtask : \E k \in 1..Len(dtask[d].probes) :
          /\ dtask[d].pc = "gated"
          /\ dtask[d].probes[k] \in {"T", "F"}
          /\ ~Has(email_existence_cache, batch_at(dtask[d].unchecked, dtask[d].i)[k])
    /\ DOMAIN cache_writes.emails # {}

(***************************************************************************)
(* The syntax filter on arbitrary strings: batch_validate is given one     *)
(* string of at most MaxStringLen characters drawn from a letter, '@', '.' *)
(* and the newline, and runs its first pass and the deliverability phase.  *)
(***************************************************************************)
MaxStringLen == 7
SyntaxChars == {"a", "@", ".", "\n"}
SyntaxStrings == UNION {[1..n -> SyntaxChars] : n \in 0..MaxStringLen}

SyntaxInit ==
    /\ bpc = "start"
    /\ emails \in {<<s>> : s \in SyntaxStrings}
    /\ check_deliverability \in BOOLEAN
    /\ check_existence = FALSE
    /\ domain_cache = EmptyMap
    /\ email_existence_cache = EmptyMap
    /\ results = EmptyMap
    /\ valid_emails = <<>>
    /\ domain_order = <<>>
    /\ emails_by_domain = EmptyMap
    /\ processed = 0
    /\ progress_reports = {}
    /\ await_i = 1
    /\ tasks = <<>>
    /\ semaphore = [value |-> DEFAULT_MAX_CONCURRENT_DOMAINS, waiters |-> <<>>]
    /\ dtask = EmptyMap
    /\ loop_blocked = <<>>
    /\ cache_writes = NoWrites
    /\ verdicts = {}
    /\ CacheIdle
    /\ LoggerIdle

SyntaxNext ==
    \/ BatchPartition
    \/ TaskStart(1)
    \/ \E o \in DelivOutcomes(TRUE) : TaskResume(1, o)
    \/ BatchCollect

SyntaxSpec == SyntaxInit /\ [][SyntaxNext]_vars

\* C37: every string accepted by quick_validate contains exactly one '@',
\* so the missing-'@' branch is unreachable: no call of validate_email_async
\* returns the missing-'@' result, batch_validate records it for no string,
\* and after the first pass of batch_validate the strings counted as
\* invalid and the strings kept as valid are disjoint and together are the
\* submitted list.
C37_AcceptedHasOneAt ==
    /\ \A i \in 1..Len(emails) :
          quick_validate(emails[i]) => Cardinality(AtPositions(emails[i])) = 1
    /\ \A i \in ValidateCalls : tasks[i].ret # MissingAtError
    /\ \A e \in DOMAIN results : results[e] # MissingAtError
    /\ bpc # "start" =>
          /\ Range(valid_emails) \cap Range(first_pass_invalid(emails)) = {}
          /\ Len(valid_emails) + Len(first_pass_invalid(emails)) = Len(emails)
          /\ processed + Cardinality({i \in ValidateCalls : i >= await_i}) = Len(emails)

\* a string that ends with a newline was accepted by quick_validate, went
\* through the split of line 244 and was found valid
C37_AcceptedWithNewline ==
    /\ bpc = "done" /\ Len(tasks) = 1
    /\ emails[1][Len(emails[1])] = "\n"
    /\ quick_validate(emails[1])
    /\ SplitHasIndex1(emails[1])
    /\ tasks[1].ret.valid
    /\ processed = 1

(***************************************************************************)
(* Domains that differ in letter case only: batch_validate is given        *)
(* addresses of x.io, X.io and x.IO, and the cache may hold a negative     *)
(* verdict for one of the spellings.                                       *)
(***************************************************************************)
A_UX == <<"a","@","X",".","i","o">>
A_XU == <<"a","@","x",".","I","O">>
D_X == <<"x",".","i","o">>
D_UX == <<"X",".","i","o">>
D_XU == <<"x",".","I","O">>
CaseAddresses == {A_X, B_X, A_UX, A_XU}
CaseLists == UNION {[1..n -> CaseAddresses] : n \in 1..MaxEmails}
CaseCaches == {EmptyMap, D_X :> FALSE, D_UX :> FALSE}

CaseInit ==
    /\ bpc = "start"
    /\ emails \in CaseLists
    /\ check_deliverability \in BOOLEAN
    /\ check_existence \in BOOLEAN
    /\ domain_cache \in CaseCaches
    /\ email_existence_cache = EmptyMap
    /\ results = EmptyMap
    /\ valid_emails = <<>>
    /\ domain_order = <<>>
    /\ emails_by_domain = EmptyMap
    /\ processed = 0
    /\ progress_reports = {}
    /\ await_i = 1
    /\ tasks = <<>>
    /\ semaphore = [value |-> DEFAULT_MAX_CONCURRENT_DOMAINS, waiters |-> <<>>]
    /\ dtask = EmptyMap
    /\ loop_blocked = <<>>
    /\ cache_writes = NoWrites
    /\ verdicts = {}
    /\ CacheIdle
    /\ LoggerIdle

\* one run of batch_validate
BatchNext ==
    \/ BatchPartition
    \/ \E i \in 1..MaxEmails : TaskStart(i)
    \/ \E i \in 1..MaxEmails : \E o \in DelivOutcomes(TRUE) : TaskResume(i, o)
    \/ BatchCollect
    \/ \E d \in DOMAIN dtask : DomainStart(d)
    \/ \E d \in DOMAIN dtask : DomainAdmit(d)
    \/ \E d \in DOMAIN dtask : \E k \in 1..DEFAULT_BATCH_SIZE :
          \E o \in ExistOutcomes : \E err \in ErrTexts : WorkerFinish(d, k, o, err)
    \/ \E d \in DOMAIN dtask : DomainBatchDone(d)
    \/ \E d \in DOMAIN dtask : DomainBatchFail(d)
    \/ \E d \in DOMAIN dtask : DomainShutdownDone(d)
    \/ ExistDone

CaseSpec == CaseInit /\ [][BatchNext]_vars

\* a call of validate_email_async runs from its start to its await (or to
\* an early return) in this step
Started(i) ==
    /\ i \in ValidateCalls
    /\ tasks[i].pc = "created"
    /\ tasks'[i].pc # "created"

\* C36: domain grouping and domain-cache keys use the domain exactly as
\* written: every address of a domain group, and of a domain task, has
\* exactly the group's domain after its '@', so two addresses whose domains
\* differ only in letter case are in different groups; every key written to
\* domain_cache is the domain of a submitted address as written; and a call
\* is rejected from the cache exactly when the cache holds a negative
\* verdict under its own spelling of the domain, so a verdict cached for
\* another spelling does not reject it.
C36_DomainsCaseSensitive ==
    /\ [](bpc # "start" =>
            /\ \A d \in DOMAIN emails_by_domain :
                  \A e \in Range(emails_by_domain[d]) : SplitIndex1(e) = d
            /\ \A d \in DOMAIN dtask :
                  \A e \in Range(dtask[d].emails) : SplitIndex1(e) = d
            /\ \A e \in Range(valid_emails) :
                  bpc = "deliv" => InSeq(e, emails_by_domain[SplitIndex1(e)])
            /\ \A k \in DOMAIN cache_writes.domains :
                  \E i \in ValidateCalls : SplitIndex1(tasks[i].email) = k)
    /\ [][\A i \in ValidateCalls :
            LET domain == SplitIndex1(tasks[i].email)
            IN  (Started(i) /\ lower(domain) \notin disposable_domains) =>
                  /\ (tasks'[i].ret.result.kind = "cached_undeliverable")
                        <=> (/\ tasks[i].cd
                             /\ Has(domain_cache, domain)
                             /\ ~domain_cache[domain])
                  /\ (tasks'[i].ret.result.kind # "cached_undeliverable")
                        => tasks'[i].pc = "probing"]_vars

\* the cache held a negative verdict for x.io: a@x.io was rejected from the
\* cache, a@X.io and a@x.IO were probed and are valid, each has its own
\* cache entry, and each had its own domain task in the existence phase
C36_OtherSpellingsProbed ==
    /\ bpc = "done" /\ check_deliverability /\ check_existence
    /\ emails = <<A_X, A_UX, A_XU>>
    /\ tasks[1].ret = CachedDomainError(D_X)
    /\ tasks[2].probe = "ok" /\ tasks[2].ret.valid
    /\ tasks[3].probe = "ok" /\ tasks[3].ret.valid
    /\ domain_cache = [d \in {D_X, D_UX, D_XU} |-> d # D_X]
    /\ DOMAIN dtask = {D_UX, D_XU}
    /\ dtask[D_UX].sent = <<A_UX>>
    /\ dtask[D_XU].sent = <<A_XU>>

(***************************************************************************)
(* check_email_exists_batch under fair scheduling: the event loop runs     *)
(* every callback that is ready, and every probe handed to a worker thread *)
(* ends (it returns or raises).  The batch has addresses of three domains, *)
(* one more than the gate admits, and all go on to the existence phase.    *)
(***************************************************************************)
GateAddresses == {A_X, B_X, A_Y, A_Z}
GateLists == UNION {[1..n -> GateAddresses] : n \in 1..MaxEmails}
GateDomains == {SplitIndex1(e) : e \in GateAddresses}

GateInit ==
    /\ bpc = "start"
    /\ emails \in GateLists
    /\ check_deliverability = FALSE
    /\ check_existence = TRUE
    /\ \E loaded \in LoadedCaches :
          /\ domain_cache = loaded[1]
          /\ email_existence_cache = loaded[2]
    /\ results = EmptyMap
    /\ valid_emails = <<>>
    /\ domain_order = <<>>
    /\ emails_by_domain = EmptyMap
    /\ processed = 0
    /\ progress_reports = {}
    /\ await_i = 1
    /\ tasks = <<>>
    /\ semaphore = [value |-> DEFAULT_MAX_CONCURRENT_DOMAINS, waiters |-> <<>>]
    /\ dtask = EmptyMap
    /\ loop_blocked = <<>>
    /\ cache_writes = NoWrites
    /\ verdicts = {}
    /\ CacheIdle
    /\ LoggerIdle

\* the event loop runs a ready callback of the existence phase
LoopStep ==
    \/ \E d \in DOMAIN dtask : DomainStart(d)
    \/ \E d \in DOMAIN dtask : DomainAdmit(d)
    \/ \E d \in DOMAIN dtask : DomainBatchDone(d)
    \/ \E d \in DOMAIN dtask : DomainBatchFail(d)
    \/ \E d \in DOMAIN dtask : DomainShutdownDone(d)
    \/ ExistDone
\* a probe that runs on a worker thread ends
ProbeEnds ==
    \E d \in DOMAIN dtask : \E k \in 1..DEFAULT_BATCH_SIZE :
        \E o \in ExistOutcomes : \E err \in ErrTexts : WorkerFinish(d, k, o, err)

GateSpec ==
    GateInit /\ [][BatchNext]_vars /\ WF_vars(LoopStep) /\ WF_vars(ProbeEnds)

\* C33: if every existence probe eventually returns or raises,
\* check_email_exists_batch eventually returns: the existence phase of a
\* batch always ends; every domain task that is created or waits at the
\* gate is eventually admitted (or ends because all its addresses were
\* cached); a task that leaves the gated block, on the normal or on the
\* error path, gives back exactly one permit; and when the batch has ended
\* every task is done, no task waits and all
\* DEFAULT_MAX_CONCURRENT_DOMAINS permits are available.
C33_BatchReturns ==
    /\ (bpc = "exist") ~> (bpc = "done")
    /\ \A d \in GateDomains :
          (d \in DOMAIN dtask /\ dtask[d].pc \in {"created", "waiting"})
             ~> (d \in DOMAIN dtask /\ dtask[d].pc \in {"gated", "shutdown", "done"})
    /\ [][\A d \in DOMAIN dtask :
            (dtask[d].pc \in {"gated", "shutdown"} /\ dtask'[d].pc = "done")
               => /\ semaphore'.value = semaphore.value + 1
                  /\ semaphore'.waiters = semaphore.waiters]_vars
    /\ []((bpc = "done" /\ dtask # EmptyMap) =>
            /\ \A d \in DOMAIN dtask : dtask[d].pc = "done"
            /\ semaphore = [value |-> DEFAULT_MAX_CONCURRENT_DOMAINS,
                            waiters |-> <<>>])

\* a batch of three domains has ended: one domain task ended on the error
\* path, another on the normal path after its probe, and the gate has all
\* its permits
C33_AllPermitsBack ==
    /\ bpc = "done"
    /\ Cardinality(DOMAIN dtask) = DEFAULT_MAX_CONCURRENT_DOMAINS + 1
    /\ \E d \in DOMAIN dtask : dtask[d].exc # ""
    /\ \E d \in DOMAIN dtask : dtask[d].exc = "" /\ dtask[d].sent # <<>>
    /\ semaphore = [value |-> DEFAULT_MAX_CONCURRENT_DOMAINS, waiters |-> <<>>]

====
